---- MODULE Spec2Model ----
(***************************************************************************)
(* Model of the Python binding layer of sombra                              *)
(* (src/bindings/python/sombra/query.py and sombra/typed/db.py): the        *)
(* create-script builder, the mutation batch, the chunked bulk paths, the   *)
(* query stream adapter and the fluent query builder, each talking to an    *)
(* opaque Engine whose calls are recorded in the log `eng`.                 *)
(*                                                                           *)
(* Every component has its own specification (SpecCreate, SpecStream, ...)  *)
(* over the shared variables; a specification leaves the variables of the   *)
(* other components at their initial values.                                 *)
(***************************************************************************)
EXTENDS Integers, Sequences, FiniteSets, TLC

VARIABLES
    db_closed,      \* Database._closed
    eng,            \* the Engine calls made so far, in order: <<[fn, arg, out], ...>>
    ret,            \* outcome of the last binding call: [call, err, val]
    calls,          \* number of binding calls made so far (bounded by MaxCalls)
    cb_nodes,       \* CreateBuilder._nodes
    cb_edges,       \* CreateBuilder._edges
    cb_sealed,      \* CreateBuilder._sealed
    qb,             \* the QueryBuilder: a record of its fields
    scopes,         \* the variables for which a _NodeScope has been handed out
    pb,             \* the _PredicateBuilder where_var(var) handed out last: <<>> or <<b>>
    has_stream_close, \* whether the native module offers stream_close
    st_handle,      \* _QueryStream._handle: 0 before stream() has opened one
    st_closed,      \* _QueryStream._closed
    st_rows,        \* rows the Engine still holds for the handle
    st_pulled,      \* rows the stream has yielded so far
    st_dead,        \* the stream object has been finalized (__del__ has run)
    st_close_called, \* history: close() has been called on the stream
    sdb_schema,     \* SombraDB._schema; its node part is the Database's runtime schema
    batch_ops,      \* _MutationBatch._ops of the batch transaction() made last
    batch_sealed,   \* _MutationBatch._sealed
    tx_pc,          \* transaction(): "idle", "fn" (inside the callback) or "done"
    tx_queued,      \* history: the ops the batch has accepted, in order
    tx_drained,     \* history: the results of the drain() calls, in order
    bulk,           \* history: the arguments of the chunked call made last
    fn_arg,         \* the argument of the function under study: <<>> or <<x>>
    fn_out          \* what the function returned for it: <<>> before the call, <<y>> after

dbVars == <<db_closed, eng, ret, calls>>
cbVars == <<cb_nodes, cb_edges, cb_sealed>>
stVars == <<has_stream_close, st_handle, st_closed, st_rows, st_pulled, st_dead,
            st_close_called>>
qbVars == <<qb, scopes, pb>>
txVars == <<batch_ops, batch_sealed, tx_pc, tx_queued, tx_drained>>
mutVars == <<sdb_schema, txVars, bulk>>
fnVars == <<fn_arg, fn_out>>
vars == <<dbVars, cbVars, stVars, qbVars, mutVars, fnVars>>

----------------------------------------------------------------------------
(* Bounds of the model. *)
MaxCalls == 4
MaxRows == 2
MaxQueryCalls == 3
MaxPredicateCalls == 5
MaxRecords == 5
MaxChunkSize == 3
MaxFailAt == 3
MaxBulkCalls == 2
MaxTxnCalls == 5
MaxCreationCalls == 3
MaxOtherNodes == 2
MaxHandleCalls == 5
MaxTraverseCalls == 5
MaxAttachCalls == 4
MaxExprCalls == 3
MaxProjectCalls == 4
MaxFailureCalls == 3
MaxRestLen == 2
MaxClosedCalls == 4
MaxFailFastCalls == 3
MaxSingleUseCalls == 5
MaxRequestIdCalls == 4
MaxIdLen == 2
MaxSummaryOps == 3
MaxMicros == 2
MaxSchemaOrderCalls == 6
MaxResubmitCalls == 4

(* Python's None, and the value of `ret.err` when a call returned normally. *)
None == "None"
NoError == ""

(* Small input domains. *)
Labels == {"User", "Post"}

(* A props mapping: every key in keys carries the value v. *)
Props(keys, v) == [k \in keys |-> v]
NoProps == Props({}, 0)
AliasInputs == {None, "", "$a"}
EngineOutcomes == {"ok", "CONFLICT", "IO"}

----------------------------------------------------------------------------
(* Error taxonomy: the class wrap_native_error picks for a wire code. *)
ErrorClassMap(code) ==
    CASE code = "ANALYZER" -> "AnalyzerError"
      [] code = "JSON" -> "JsonError"
      [] code = "IO" -> "IoError"
      [] code = "CORRUPTION" -> "CorruptionError"
      [] code = "CONFLICT" -> "ConflictError"
      [] code = "SNAPSHOT_TOO_OLD" -> "SnapshotTooOldError"
      [] code = "CANCELLED" -> "CancelledError"
      [] code = "INVALID_ARG" -> "InvalidArgError"
      [] code = "NOT_FOUND" -> "NotFoundError"
      [] code = "CLOSED" -> "ClosedError"
      [] OTHER -> "SombraError"

(* A _wrap_native_call that swallows the Engine's failure. *)
wrap_native_call_swallow(outcome) == NoError

(* _wrap_native_call: the Engine's outcome as the caller sees it. *)
wrap_native_call(outcome) ==
    IF outcome = "ok" THEN NoError ELSE ErrorClassMap(outcome)

Ret(call, err, val) == [call |-> call, err |-> err, val |-> val]
(* One Engine call: the native function, its argument, the Engine's outcome. *)
EngineCall(fn, arg, out) == [fn |-> fn, arg |-> arg, out |-> out]

(* An _assert_open that never raises. *)
Database_assert_open_never(closed) == FALSE

(* Database._assert_open: TRUE iff it raises ClosedError. *)
Database_assert_open(closed) == closed

----------------------------------------------------------------------------
(* Error messages *)

(* A message is the sequence of its characters.  The spelling of the wire
   codes, and of one uppercase code outside the enumeration. *)
CodeChars ==
    [UNKNOWN |-> <<"U", "N", "K", "N", "O", "W", "N">>,
     MESSAGE |-> <<"M", "E", "S", "S", "A", "G", "E">>,
     ANALYZER |-> <<"A", "N", "A", "L", "Y", "Z", "E", "R">>,
     JSON |-> <<"J", "S", "O", "N">>,
     IO |-> <<"I", "O">>,
     CORRUPTION |-> <<"C", "O", "R", "R", "U", "P", "T", "I", "O", "N">>,
     CONFLICT |-> <<"C", "O", "N", "F", "L", "I", "C", "T">>,
     SNAPSHOT_TOO_OLD |-> <<"S", "N", "A", "P", "S", "H", "O", "T", "_", "T", "O", "O", "_",
                            "O", "L", "D">>,
     CANCELLED |-> <<"C", "A", "N", "C", "E", "L", "L", "E", "D">>,
     INVALID_ARG |-> <<"I", "N", "V", "A", "L", "I", "D", "_", "A", "R", "G">>,
     NOT_FOUND |-> <<"N", "O", "T", "_", "F", "O", "U", "N", "D">>,
     CLOSED |-> <<"C", "L", "O", "S", "E", "D">>,
     NOPE |-> <<"N", "O", "P", "E">>]

(* class ErrorCode *)
ErrorCodes == DOMAIN CodeChars \ {"NOPE"}

(* The characters of [A-Z_] and of \s that occur in messages. *)
CodeClassChars ==
    {"A", "B", "C", "D", "E", "F", "G", "H", "I", "J", "K", "L", "M", "N", "O", "P", "Q",
     "R", "S", "T", "U", "V", "W", "X", "Y", "Z", "_"}
WhitespaceChars == {" ", "\n", "\t"}

(* The length of the longest prefix of msg from position i on whose
   characters are all in set. *)
RECURSIVE run_length(_, _, _)
run_length(msg, i, set) ==
    IF i > Len(msg) \/ msg[i] \notin set THEN 0 ELSE 1 + run_length(msg, i + 1, set)

(* An _ERROR_CODE_REGEX that stops after the closing bracket. *)
error_code_regex_no_strip(msg) ==
    LET n == run_length(msg, 2, CodeClassChars) IN
    IF Len(msg) >= 1 /\ msg[1] = "[" /\ n >= 1 /\ Len(msg) >= n + 2 /\ msg[n + 2] = "]"
    THEN [matched |-> TRUE, code |-> SubSeq(msg, 2, n + 1), end |-> n + 2]
    ELSE [matched |-> FALSE, code |-> <<>>, end |-> 0]

(* An _ERROR_CODE_REGEX whose code may hold any character but "]". *)
error_code_regex_any_code(msg) ==
    LET n == run_length(msg, 2, CodeClassChars \cup {"i", "o", "E", "1", "x", " "}) IN
    IF Len(msg) >= 1 /\ msg[1] = "[" /\ n >= 1 /\ Len(msg) >= n + 2 /\ msg[n + 2] = "]"
    THEN [matched |-> TRUE, code |-> SubSeq(msg, 2, n + 1),
          end |-> n + 2 + run_length(msg, n + 3, WhitespaceChars)]
    ELSE [matched |-> FALSE, code |-> <<>>, end |-> 0]

(* _ERROR_CODE_REGEX.match(message), ^\[([A-Z_]+)\]\s* : whether it matches,
   group 1, and the position of the last character matched. *)
error_code_regex(msg) ==
    LET n == run_length(msg, 2, CodeClassChars) IN
    IF Len(msg) >= 1 /\ msg[1] = "[" /\ n >= 1 /\ Len(msg) >= n + 2 /\ msg[n + 2] = "]"
    THEN [matched |-> TRUE, code |-> SubSeq(msg, 2, n + 1),
          end |-> n + 2 + run_length(msg, n + 3, WhitespaceChars)]
    ELSE [matched |-> FALSE, code |-> <<>>, end |-> 0]

(* An exception object: its class, its code attribute ("" when the class has
   none), its message and its identity. *)
Exc(cls, code, msg, id) == [cls |-> cls, code |-> code, msg |-> msg, id |-> id]

(* The SombraError classes, and the code each constructor sets. *)
SombraErrorClasses == {ErrorClassMap(c) : c \in ErrorCodes}
ClassCode(cls) ==
    IF cls = "SombraError" THEN "UNKNOWN"
    ELSE CHOOSE c \in ErrorCodes : ErrorClassMap(c) = cls

(* _ERROR_CLASS_MAP.get(code, SombraError) for a code as it was matched *)
error_class_for(code) ==
    IF \E c \in ErrorCodes : CodeChars[c] = code
    THEN ErrorClassMap(CHOOSE c \in ErrorCodes : CodeChars[c] = code)
    ELSE "SombraError"

(* wrap_native_error: an object it constructs gets a new identity. *)
wrap_native_error(err) ==
    LET m == error_code_regex(err.msg) IN
    IF m.matched
    THEN Exc(error_class_for(m.code), ClassCode(error_class_for(m.code)),
             SubSeq(err.msg, m.end + 1, Len(err.msg)), err.id + 1)
    ELSE IF err.cls \in SombraErrorClasses THEN err
    ELSE Exc("SombraError", "UNKNOWN", err.msg, err.id + 1)

(* wrap_native_error(err) on an error the caller holds, and on its result *)
wrap_native_error_call ==
    /\ fn_arg # <<>> /\ fn_out = <<>>
    /\ fn_out' = <<wrap_native_error(fn_arg[1])>>
    /\ UNCHANGED <<dbVars, cbVars, stVars, qbVars, mutVars, fn_arg>>
wrap_native_error_again ==
    /\ fn_out # <<>>
    /\ fn_arg' = fn_out
    /\ fn_out' = <<wrap_native_error(fn_out[1])>>
    /\ UNCHANGED <<dbVars, cbVars, stVars, qbVars, mutVars>>

----------------------------------------------------------------------------
(* Database.close *)
Database_close(outcome) ==
    /\ calls < MaxCalls
    /\ calls' = calls + 1
    /\ IF db_closed
       THEN /\ UNCHANGED <<db_closed, eng>>
            /\ ret' = Ret("close", NoError, 0)
       ELSE /\ eng' = Append(eng, EngineCall("database_close", 0, outcome))
            /\ db_closed' = (outcome = "ok")
            /\ ret' = Ret("close", wrap_native_call(outcome), 0)

----------------------------------------------------------------------------
(* CreateBuilder *)

(* A builder whose _ensure_mutable never raises. *)
CreateBuilder_ensure_mutable_never(sealed) == FALSE

(* CreateBuilder._ensure_mutable: TRUE iff it raises "builder already executed". *)
CreateBuilder_ensure_mutable(sealed) == sealed

Handle(index) == [kind |-> "handle", index |-> index]

(* The endpoint values a caller may pass to edge(): a handle that node() has
   returned (its index in n, the builder it came from in b), a string (in s),
   an int (in n). *)
Ref(ty, s, n) == [ty |-> ty, s |-> s, n |-> n, b |-> "self"]

(* _CreateHandle(other, i): a handle that node() of another CreateBuilder of
   the same Database has returned; that builder has MaxOtherNodes nodes. *)
OtherHandle(i) == [ty |-> "handle", s |-> "", n |-> i, b |-> "other"]
OtherHandleInputs == {OtherHandle(i) : i \in 0..(MaxOtherNodes - 1)}
RefInputs ==
    {Ref("handle", "", i) : i \in 0..(Len(cb_nodes) - 1)}
      \cup {Ref("str", s, 0) : s \in {"", "$a"}}
      \cup {Ref("int", "", n) : n \in {-1, 7}}

(* CreateBuilder._encode_ref: the encoded reference, or an error. *)
CreateBuilder_encode_ref_err(value) ==
    CASE value.ty = "handle" -> NoError
      [] value.ty = "str" -> IF value.s = "" THEN "ValueError" ELSE NoError
      [] value.ty = "int" -> IF value.n < 0 THEN "ValueError" ELSE NoError
      [] OTHER -> "TypeError"

(* An _encode_ref that resolves an alias reference to the first node. *)
CreateBuilder_encode_ref_resolving(value) ==
    CASE value.ty = "handle" -> [kind |-> "handle", s |-> "", n |-> value.n]
      [] value.ty = "str" -> [kind |-> "handle", s |-> "", n |-> 0]
      [] OTHER -> [kind |-> "id", s |-> "", n |-> value.n]

(* {kind: handle, index: n}, {kind: alias, alias: s} or {kind: id, id: n} *)
CreateBuilder_encode_ref(value) ==
    CASE value.ty = "handle" -> [kind |-> "handle", s |-> "", n |-> value.n]
      [] value.ty = "str" -> [kind |-> "alias", s |-> value.s, n |-> 0]
      [] OTHER -> [kind |-> "id", s |-> "", n |-> value.n]

CreateBuilder_node(labels, props, alias) ==
    /\ calls' = calls + 1
    /\ UNCHANGED <<db_closed, eng, cb_edges, cb_sealed>>
    /\ IF CreateBuilder_ensure_mutable(cb_sealed)
       THEN /\ ret' = Ret("node", "builder already executed", 0)
            /\ UNCHANGED cb_nodes
       ELSE IF alias = ""
       THEN /\ ret' = Ret("node", "ValueError", 0)
            /\ UNCHANGED cb_nodes
       ELSE /\ cb_nodes' = Append(cb_nodes,
                    [labels |-> <<labels>>, props |-> props, alias |-> alias])
            /\ ret' = Ret("node", NoError, Len(cb_nodes))

CreateBuilder_edge(src, ty, dst, props) ==
    /\ calls' = calls + 1
    /\ UNCHANGED <<db_closed, eng, cb_nodes, cb_sealed>>
    /\ IF CreateBuilder_ensure_mutable(cb_sealed)
       THEN /\ ret' = Ret("edge", "builder already executed", 0)
            /\ UNCHANGED cb_edges
       ELSE IF ty = ""
       THEN /\ ret' = Ret("edge", "ValueError", 0)
            /\ UNCHANGED cb_edges
       ELSE IF CreateBuilder_encode_ref_err(src) # NoError
       THEN /\ ret' = Ret("edge", CreateBuilder_encode_ref_err(src), 0)
            /\ UNCHANGED cb_edges
       ELSE IF CreateBuilder_encode_ref_err(dst) # NoError
       THEN /\ ret' = Ret("edge", CreateBuilder_encode_ref_err(dst), 0)
            /\ UNCHANGED cb_edges
       ELSE /\ cb_edges' = Append(cb_edges,
                    [src |-> CreateBuilder_encode_ref(src), ty |-> ty,
                     dst |-> CreateBuilder_encode_ref(dst), props |-> props])
            /\ ret' = Ret("edge", NoError, 0)

CreateBuilder_execute(outcome) ==
    /\ calls' = calls + 1
    /\ UNCHANGED <<db_closed, cb_nodes, cb_edges>>
    /\ IF Database_assert_open(db_closed)
       THEN /\ ret' = Ret("execute", "ClosedError", 0)
            /\ UNCHANGED <<eng, cb_sealed>>
       ELSE IF CreateBuilder_ensure_mutable(cb_sealed)
       THEN /\ ret' = Ret("execute", "builder already executed", 0)
            /\ UNCHANGED <<eng, cb_sealed>>
       ELSE /\ cb_sealed' = TRUE
            /\ eng' = Append(eng, EngineCall("database_create",
                        [nodes |-> cb_nodes, edges |-> cb_edges], outcome))
            /\ ret' = Ret("execute", wrap_native_call(outcome), 0)

----------------------------------------------------------------------------
(* QueryBuilder: data *)

(* The runtime schema a builder captured from its Database: Python None, or a
   mapping label -> allowed property names. *)
SchemaNone == [isNone |-> TRUE, m |-> <<>>]
SchemaUser == [isNone |-> FALSE, m |-> [l \in {"User"} |-> {"name"}]]

(* `not schema` in Python: None or an empty mapping. *)
SchemaFalsy(schema) == schema.isNone \/ DOMAIN schema.m = {}

(* self._predicate is None *)
NoPredicate ==
    [op |-> "None", var |-> None, prop |-> None, args |-> <<>>, lits |-> <<>>,
     incl |-> <<>>]

(* The request id of a builder: None, or a string (its characters). *)
RequestId(chars) == [isNone |-> FALSE, chars |-> chars]
NoRequestId == [isNone |-> TRUE, chars |-> <<>>]

(* QueryBuilder.__init__ *)
QueryBuilder_init(schema) ==
    [schema |-> schema, matches |-> <<>>, edges |-> <<>>, predicate |-> NoPredicate,
     projections |-> <<>>, distinct |-> FALSE, last_var |-> None, next_var_idx |-> 0,
     pending_direction |-> "out", request_id |-> NoRequestId]

(* The outcome of a builder operation: the builder after it, and the error it
   raised (NoError when it returned). *)
R(q, err) == [q |-> q, err |-> err]

auto_var_name(idx) == "n" \o ToString(idx)

(* QueryBuilder._next_auto_var *)
QueryBuilder_next_auto_var(q) ==
    [q |-> [q EXCEPT !.next_var_idx = @ + 1], name |-> auto_var_name(q.next_var_idx)]

(* A match/traversal target as the caller passes it: a label string
   (form "str"), a dict with optional var and label (form "dict"), or a value
   of another type (form "bad"). *)
Target(form, var, label) == [form |-> form, var |-> var, label |-> label]

(* _normalize_target, for a str or dict target *)
normalize_target(target, fallback) ==
    IF target.form = "str"
    THEN [var |-> fallback, label |-> target.label]
    ELSE [var |-> IF target.var \in {None, ""} THEN fallback ELSE target.var,
          label |-> target.label]

MatchIndexes(matches, var) == {i \in DOMAIN matches : matches[i].var = var}
Declared(q) == {q.matches[i].var : i \in DOMAIN q.matches}

(* _ensure_match that adopts a new label even when the clause has one. *)
QueryBuilder_ensure_match_overwrite(q, var, label) ==
    LET hits == MatchIndexes(q.matches, var) IN
    IF hits # {}
    THEN LET i == CHOOSE i \in hits : \A j \in hits : i <= j IN
         IF label # None THEN [q EXCEPT !.matches[i].label = label] ELSE q
    ELSE [q EXCEPT !.matches = Append(@, [var |-> var, label |-> label])]

(* _ensure_match that appends a second clause when asked to adopt a label. *)
QueryBuilder_ensure_match_append(q, var, label) ==
    LET hits == MatchIndexes(q.matches, var) IN
    IF hits # {} /\ ~(label # None /\ \A i \in hits : q.matches[i].label = None)
    THEN q
    ELSE [q EXCEPT !.matches = Append(@, [var |-> var, label |-> label])]

(* QueryBuilder._ensure_match *)
QueryBuilder_ensure_match(q, var, label) ==
    LET hits == MatchIndexes(q.matches, var) IN
    IF hits # {}
    THEN LET i == CHOOSE i \in hits : \A j \in hits : i <= j IN
         IF label # None /\ q.matches[i].label = None
         THEN [q EXCEPT !.matches[i].label = label]
         ELSE q
    ELSE [q EXCEPT !.matches = Append(@, [var |-> var, label |-> label])]

(* An _assert_match that accepts every name. *)
QueryBuilder_assert_match_never(q, var) == FALSE

(* QueryBuilder._assert_match: TRUE iff it raises "unknown variable". *)
QueryBuilder_assert_match(q, var) == var \notin Declared(q)

(* QueryBuilder._label_for_var *)
QueryBuilder_label_for_var(q, var) ==
    LET hits == MatchIndexes(q.matches, var) IN
    IF hits = {} THEN None
    ELSE LET i == CHOOSE i \in hits : \A j \in hits : i <= j
             label == q.matches[i].label
         IN IF label \in {None, ""} THEN None ELSE label

(* A _require_label that accepts a clause without a label. *)
QueryBuilder_require_label_never(q, var) == FALSE

(* QueryBuilder._require_label: TRUE iff it raises. *)
QueryBuilder_require_label(q, var) == QueryBuilder_label_for_var(q, var) = None

----------------------------------------------------------------------------
(* QueryBuilder: declarations and traversal, as functions of the builder *)

(* QueryBuilder.nodes *)
QueryBuilder_nodes_op(q, label) ==
    IF label = "" THEN R(q, "ValueError")
    ELSE LET a == QueryBuilder_next_auto_var(q)
             q1 == QueryBuilder_ensure_match(a.q, a.name, label)
         IN R([q1 EXCEPT !.last_var = a.name], NoError)

(* QueryBuilder.match with a label or a {var, label} dict *)
QueryBuilder_match_op(q, target) ==
    LET a == QueryBuilder_next_auto_var(q) IN
    IF target.form = "bad" THEN R(a.q, "ValueError")
    ELSE LET n == normalize_target(target, a.name)
             q1 == QueryBuilder_ensure_match(a.q, n.var, n.label)
         IN R([q1 EXCEPT !.last_var = n.var], NoError)

(* The loop of QueryBuilder._match_map over entries[i..]: an entry is
   [var, form, label] with form "str" (the value is a label), "none" (the
   value is None), "map" (the value is a mapping with an optional label) or
   "bad" (any other value). *)
RECURSIVE match_map_loop(_, _, _)
match_map_loop(q, entries, i) ==
    IF i > Len(entries) THEN R(q, NoError)
    ELSE LET e == entries[i] IN
         IF e.var = "" \/ e.form = "bad" THEN R(q, "ValueError")
         ELSE match_map_loop(QueryBuilder_ensure_match(q, e.var, e.label), entries, i + 1)

(* QueryBuilder._match_map *)
QueryBuilder_match_map_op(q, entries) ==
    IF entries = <<>> THEN R(q, "ValueError")
    ELSE LET r == match_map_loop(q, entries, 1) IN
         IF r.err # NoError THEN r
         ELSE R([r.q EXCEPT !.last_var = entries[Len(entries)].var], NoError)

(* A where() that leaves the current variable where it was. *)
QueryBuilder_where_op_stay(q, edge_type, target) ==
    IF q.last_var \in {None, ""} THEN R(q, "ValueError")
    ELSE LET a == QueryBuilder_next_auto_var(q) IN
         IF target.form = "bad" THEN R(a.q, "ValueError")
         ELSE LET n == normalize_target(target, a.name)
                  q1 == QueryBuilder_ensure_match(a.q, n.var, n.label)
                  edge == [from |-> q.last_var, to |-> n.var, edge_type |-> edge_type,
                           direction |-> q.pending_direction]
              IN R([q1 EXCEPT !.edges = Append(@, edge), !.pending_direction = "out"], NoError)

(* A where() that leaves the pending direction as it was. *)
QueryBuilder_where_op_keep_direction(q, edge_type, target) ==
    IF q.last_var \in {None, ""} THEN R(q, "ValueError")
    ELSE LET a == QueryBuilder_next_auto_var(q) IN
         IF target.form = "bad" THEN R(a.q, "ValueError")
         ELSE LET n == normalize_target(target, a.name)
                  q1 == QueryBuilder_ensure_match(a.q, n.var, n.label)
                  edge == [from |-> q.last_var, to |-> n.var, edge_type |-> edge_type,
                           direction |-> q.pending_direction]
              IN R([q1 EXCEPT !.edges = Append(@, edge), !.last_var = n.var], NoError)

(* QueryBuilder.where(edge_type, target): one traversal step *)
QueryBuilder_where_op(q, edge_type, target) ==
    IF q.last_var \in {None, ""} THEN R(q, "ValueError")
    ELSE LET a == QueryBuilder_next_auto_var(q) IN
         IF target.form = "bad" THEN R(a.q, "ValueError")
         ELSE LET n == normalize_target(target, a.name)
                  q1 == QueryBuilder_ensure_match(a.q, n.var, n.label)
                  edge == [from |-> q.last_var, to |-> n.var, edge_type |-> edge_type,
                           direction |-> q.pending_direction]
              IN R([q1 EXCEPT !.edges = Append(@, edge), !.last_var = n.var,
                               !.pending_direction = "out"], NoError)

(* QueryBuilder.direction(direction) *)
QueryBuilder_direction_op(q, direction) ==
    IF direction \notin {"out", "in", "both"} THEN R(q, "ValueError")
    ELSE R([q EXCEPT !.pending_direction = direction], NoError)

(* QueryBuilder.bidirectional() *)
QueryBuilder_bidirectional_op(q) == QueryBuilder_direction_op(q, "both")

----------------------------------------------------------------------------
(* Literals *)

(* A Python value handed to a comparison: its type and its magnitude as an
   offset `v` from a named base ("0"; for an int also "I64_MAX" and "I64_MIN";
   for a float also "nan" and "inf"; for a datetime "naive" (no time zone),
   "EPOCH", "MIN_DATETIME" and "MAX_DATETIME", the offset in microseconds). *)
PyValue(ty, base, v) == [ty |-> ty, base |-> base, v |-> v]
PyNone == PyValue("NoneType", "0", 0)
PyInt(n) == PyValue("int", "0", n)
PyBool(b) == PyValue("bool", "0", IF b THEN 1 ELSE 0)

(* A Python value handed where a sequence is expected (inclusive=, the values
   of in_): its type ("NoneType" for None) and its items. *)
PySeq(ty, items) == [ty |-> ty, items |-> items]
PySeqNone == PySeq("NoneType", <<>>)

(* A datetime in full: its wall-clock time, as whole hours and microseconds
   from 0:00 of a named day ("MIN_DATETIME" 1900-01-01, "EPOCH" 1970-01-01,
   "MAX_DATETIME" 2100-01-01), and its tzinfo: none (aware FALSE) or a fixed
   offset from UTC, in hours. *)
DateTime(base, hours, micros, aware, utcoffset) ==
    [base |-> base, hours |-> hours, micros |-> micros, aware |-> aware,
     utcoffset |-> utcoffset]

(* (_MIN_DATETIME - _EPOCH).days, 0, (_MAX_DATETIME - _EPOCH).days *)
BaseDays == [MIN_DATETIME |-> -25567, EPOCH |-> 0, MAX_DATETIME |-> 47482]

(* A timedelta, normalized as Python keeps it: any number of days, then
   0 <= seconds < 86400 and 0 <= microseconds < 1000000. *)
TimeDelta(days, seconds, microseconds) ==
    [days |-> days, seconds |-> seconds, microseconds |-> microseconds]
timedelta_lt(a, b) ==
    \/ a.days < b.days
    \/ a.days = b.days /\ a.seconds < b.seconds
    \/ a.days = b.days /\ a.seconds = b.seconds /\ a.microseconds < b.microseconds

(* value.astimezone(timezone.utc) - _EPOCH *)
utc_delta(value) ==
    LET secs == (value.hours - value.utcoffset) * 3600 + (value.micros \div 1000000) IN
    TimeDelta(BaseDays[value.base] + (secs \div 86400), secs % 86400, value.micros % 1000000)

(* An integer number of nanoseconds, too large for one machine word of the
   checker: days * 86400 * 10^9 + seconds * 10^9 + nanos, with
   0 <= seconds < 86400 and 0 <= nanos < 10^9. *)
Nanos(days, seconds, nanos) == [days |-> days, seconds |-> seconds, nanos |-> nanos]

(* _datetime_to_ns: the error it raises, the nanoseconds it returns
   (total_seconds * _NANOS_PER_SECOND + delta.microseconds * 1_000). *)
datetime_to_ns(value) ==
    IF ~value.aware THEN [err |-> "ValueError", ns |-> Nanos(0, 0, 0)]
    ELSE LET delta == utc_delta(value) IN
         IF \/ timedelta_lt(delta, TimeDelta(BaseDays["MIN_DATETIME"], 0, 0))
            \/ timedelta_lt(TimeDelta(BaseDays["MAX_DATETIME"], 0, 0), delta)
         THEN [err |-> "ValueError", ns |-> Nanos(0, 0, 0)]
         ELSE [err |-> NoError,
               ns |-> Nanos(delta.days, delta.seconds, delta.microseconds * 1000)]

(* _datetime_to_ns is called on the value the caller holds. *)
datetime_to_ns_call ==
    /\ fn_arg # <<>>
    /\ fn_out = <<>>
    /\ fn_out' = <<datetime_to_ns(fn_arg[1])>>
    /\ UNCHANGED fn_arg

(* _literal_value is called on the datetime the caller holds: the outcome of
   _datetime_to_ns and, when it returned, the literal built around it. *)
literal_value_datetime_call ==
    /\ fn_arg # <<>>
    /\ fn_out = <<>>
    /\ LET r == datetime_to_ns(fn_arg[1]) IN
          fn_out' = IF r.err # NoError THEN <<r>> ELSE <<r, [t |-> "DateTime", v |-> r.ns]>>
    /\ UNCHANGED fn_arg

(* _datetime_to_ns: TRUE iff it raises. *)
datetime_to_ns_err(value) ==
    \/ value.base = "naive"
    \/ value.base = "MIN_DATETIME" /\ value.v < 0
    \/ value.base = "MAX_DATETIME" /\ value.v > 0

(* _literal_value: the error it raises (NoError when it returns). *)
literal_value_err(value) ==
    CASE value.ty \in {"NoneType", "bool", "str", "bytes"} -> NoError
      [] value.ty = "datetime" -> IF datetime_to_ns_err(value) THEN "ValueError" ELSE NoError
      [] value.ty = "int" ->
            IF \/ value.base = "I64_MIN" /\ value.v < 0
               \/ value.base = "I64_MAX" /\ value.v > 0
            THEN "ValueError" ELSE NoError
      [] value.ty = "float" -> IF value.base \in {"nan", "inf"} THEN "ValueError" ELSE NoError
      [] OTHER -> "ValueError"

(* _literal_value: the tagged literal (nanoseconds for a datetime). *)
literal_value(value) ==
    CASE value.ty = "NoneType" -> [t |-> "Null", base |-> "0", v |-> 0]
      [] value.ty = "bool" -> [t |-> "Bool", base |-> "0", v |-> value.v]
      [] value.ty = "datetime" -> [t |-> "DateTime", base |-> value.base, v |-> value.v * 1000]
      [] value.ty = "int" -> [t |-> "Int", base |-> value.base, v |-> value.v]
      [] value.ty = "float" -> [t |-> "Float", base |-> value.base, v |-> value.v]
      [] value.ty = "str" -> [t |-> "String", base |-> "0", v |-> value.v]
      [] OTHER -> [t |-> "Bytes", base |-> "0", v |-> value.v]

----------------------------------------------------------------------------
(* Predicates *)

(* A comparison node and a combinator node of a predicate tree. *)
Comparison(op, var, prop, lits, incl) ==
    [op |-> op, var |-> var, prop |-> prop, args |-> <<>>, lits |-> lits, incl |-> incl]
Combinator(op, args) ==
    [op |-> op, var |-> None, prop |-> None, args |-> args, lits |-> <<>>, incl |-> <<>>]

(* _normalize_prop_name: TRUE iff it raises. *)
normalize_prop_name(prop) == prop \in {None, "", " "}

(* The per-variable property validator: the identity unless `strict`. *)
LenientValidator == [strict |-> FALSE, label |-> None, allowed |-> {}]

(* A _make_prop_validator that never consults the schema. *)
QueryBuilder_make_prop_validator_lenient(q, var) == LenientValidator

(* QueryBuilder._make_prop_validator *)
QueryBuilder_make_prop_validator(q, var) ==
    IF SchemaFalsy(q.schema) THEN LenientValidator
    ELSE LET label == QueryBuilder_label_for_var(q, var) IN
         IF label = None THEN LenientValidator
         ELSE IF label \notin DOMAIN q.schema.m THEN LenientValidator
         ELSE [strict |-> TRUE, label |-> label, allowed |-> q.schema.m[label]]

(* Applying a validator to a property name: the error it raises. *)
validator_err(validator, prop) ==
    IF normalize_prop_name(prop) THEN "ValueError"
    ELSE IF validator.strict /\ prop \notin validator.allowed THEN "Unknown property"
    ELSE NoError

(* An _append_predicate that wraps every time, also under an equal root. *)
QueryBuilder_append_predicate_nest(q, expr, combinator) ==
    IF q.predicate = NoPredicate THEN [q EXCEPT !.predicate = expr]
    ELSE [q EXCEPT !.predicate = Combinator(combinator, <<q.predicate, expr>>)]

(* An _append_predicate that appends to any combinator root, whatever its
   operator. *)
QueryBuilder_append_predicate_flat(q, expr, combinator) ==
    IF q.predicate = NoPredicate THEN [q EXCEPT !.predicate = expr]
    ELSE IF q.predicate.op \in {"and", "or"}
    THEN [q EXCEPT !.predicate.args = Append(@, expr)]
    ELSE [q EXCEPT !.predicate = Combinator(combinator, <<q.predicate, expr>>)]

(* QueryBuilder._append_predicate *)
QueryBuilder_append_predicate(q, expr, combinator) ==
    IF q.predicate = NoPredicate THEN [q EXCEPT !.predicate = expr]
    ELSE IF q.predicate.op = combinator
    THEN [q EXCEPT !.predicate.args = Append(@, expr)]
    ELSE [q EXCEPT !.predicate = Combinator(combinator, <<q.predicate, expr>>)]

(* _PredicateBuilder.__init__ *)
PredicateBuilder_init(has_parent, var, mode, validator) ==
    [has_parent |-> has_parent, var |-> var, mode |-> mode, validator |-> validator,
     exprs |-> <<>>, sealed |-> FALSE]

(* The outcome of a predicate-builder operation. *)
PR(b, err) == [b |-> b, err |-> err]

(* _PredicateBuilder._push *)
PredicateBuilder_push(b, expr) ==
    IF b.sealed THEN PR(b, "predicate builder already finalized")
    ELSE PR([b EXCEPT !.exprs = Append(@, expr)], NoError)

(* _PredicateBuilder.eq/ne/lt/le/gt/ge/exists/is_null/is_not_null *)
PredicateBuilder_compare(b, op, prop, value) ==
    IF op \in {"exists", "isNull", "isNotNull"}
    THEN IF validator_err(b.validator, prop) # NoError
         THEN PR(b, validator_err(b.validator, prop))
         ELSE PredicateBuilder_push(b, Comparison(op, b.var, prop, <<>>, <<>>))
    ELSE IF literal_value_err(value) # NoError THEN PR(b, literal_value_err(value))
    ELSE IF op \in {"lt", "le", "gt", "ge"} /\ literal_value(value).t = "Null"
    THEN PR(b, "ValueError")
    ELSE IF validator_err(b.validator, prop) # NoError
    THEN PR(b, validator_err(b.validator, prop))
    ELSE PredicateBuilder_push(b, Comparison(op, b.var, prop, <<literal_value(value)>>, <<>>))

(* The test both between() and _normalize_inclusive_tuple make of a given
   inclusive: a Sequence of length two whose items are all bool. *)
inclusive_ok(inclusive) ==
    /\ inclusive.ty \in {"list", "tuple", "str"}
    /\ Len(inclusive.items) = 2
    /\ \A i \in DOMAIN inclusive.items : inclusive.items[i].ty = "bool"

(* [bool(inclusive[0]), bool(inclusive[1])] *)
inclusive_flags(items) == [i \in DOMAIN items |-> PyBool(items[i].v # 0)]

(* A between() that takes its bounds and its inclusive as they come. *)
PredicateBuilder_between_unchecked(b, prop, low, high, inclusive) ==
    IF validator_err(b.validator, prop) # NoError
    THEN PR(b, validator_err(b.validator, prop))
    ELSE PredicateBuilder_push(b,
            Comparison("between", b.var, prop, <<literal_value(low), literal_value(high)>>,
                       inclusive.items))

(* _PredicateBuilder.between *)
PredicateBuilder_between(b, prop, low, high, inclusive) ==
    IF literal_value_err(low) # NoError THEN PR(b, literal_value_err(low))
    ELSE IF literal_value_err(high) # NoError THEN PR(b, literal_value_err(high))
    ELSE IF literal_value(low).t = "Null" \/ literal_value(high).t = "Null"
    THEN PR(b, "ValueError")
    ELSE IF inclusive.ty # "NoneType" /\ ~inclusive_ok(inclusive) THEN PR(b, "ValueError")
    ELSE IF validator_err(b.validator, prop) # NoError
    THEN PR(b, validator_err(b.validator, prop))
    ELSE PredicateBuilder_push(b,
            Comparison("between", b.var, prop, <<literal_value(low), literal_value(high)>>,
                       IF inclusive.ty = "NoneType" THEN <<PyBool(TRUE), PyBool(TRUE)>>
                       ELSE inclusive_flags(inclusive.items)))

(* The same-type test of in_() and _convert_in_list_values: TRUE iff two
   non-null literals carry different tags. *)
mixed_tags(tagged) ==
    \E i, j \in DOMAIN tagged :
        tagged[i].t # "Null" /\ tagged[j].t # "Null" /\ tagged[i].t # tagged[j].t

(* _PredicateBuilder.in_ *)
PredicateBuilder_in(b, prop, values) ==
    IF values.ty \notin {"list", "tuple"} THEN PR(b, "TypeError")
    ELSE IF values.items = <<>> THEN PR(b, "ValueError")
    ELSE LET items == values.items
             nested(i) == items[i].ty \in {"list", "tuple", "set", "dict"}
             bad == {i \in DOMAIN items : nested(i) \/ literal_value_err(items[i]) # NoError}
             tagged == [i \in DOMAIN items |-> literal_value(items[i])]
         IN IF bad # {}
            THEN LET k == CHOOSE i \in bad : \A j \in bad : i <= j
                 IN PR(b, IF nested(k) THEN "TypeError" ELSE literal_value_err(items[k]))
            ELSE IF mixed_tags(tagged) THEN PR(b, "ValueError")
            ELSE IF validator_err(b.validator, prop) # NoError
            THEN PR(b, validator_err(b.validator, prop))
            ELSE PredicateBuilder_push(b, Comparison("in", b.var, prop, tagged, <<>>))

(* _PredicateBuilder._finalize_expr: the builder after it, the expression, the
   error. *)
PredicateBuilder_finalize_expr(b) ==
    IF b.sealed
    THEN [b |-> b, expr |-> NoPredicate, err |-> "predicate builder already finalized"]
    ELSE IF b.exprs = <<>>
    THEN [b |-> b, expr |-> NoPredicate, err |-> "ValueError"]
    ELSE [b |-> [b EXCEPT !.sealed = TRUE],
          expr |-> IF Len(b.exprs) = 1 THEN b.exprs[1] ELSE Combinator(b.mode, b.exprs),
          err |-> NoError]

(* A callback body run against a predicate builder: a sequence of commands,
   [cmd |-> "cmp", op, prop, value], [cmd |-> "between", prop, value (low),
   high, seq (inclusive)], [cmd |-> "in", prop, seq (values)] or
   [cmd |-> "group", mode, body] with mode "and", "or" or "not"; the first
   command that raises ends the callback with its error. *)
Cmd(cmd, op, prop, value, high, seq, mode, body) ==
    [cmd |-> cmd, op |-> op, prop |-> prop, value |-> value, high |-> high, seq |-> seq,
     mode |-> mode, body |-> body]
CmpCmd(op, prop, value) == Cmd("cmp", op, prop, value, PyNone, PySeqNone, None, <<>>)
BetweenCmd(prop, low, high, inclusive) ==
    Cmd("between", "between", prop, low, high, inclusive, None, <<>>)
InCmd(prop, values) == Cmd("in", "in", prop, PyNone, PyNone, values, None, <<>>)
GroupCmd(mode, body) == Cmd("group", None, None, PyNone, PyNone, PySeqNone, mode, body)

RECURSIVE PredicateBuilder_run(_, _, _)
RECURSIVE PredicateBuilder_group(_, _, _)

(* _PredicateBuilder._group (and_/or_) and not_ *)
PredicateBuilder_group(b, mode, body) ==
    LET nested == PredicateBuilder_init(FALSE, b.var, IF mode = "not" THEN "and" ELSE mode,
                                        b.validator)
        ran == PredicateBuilder_run(nested, body, 1)
    IN IF ran.err # NoError THEN PR(b, ran.err)
       ELSE LET fin == PredicateBuilder_finalize_expr(ran.b) IN
            IF fin.err # NoError THEN PR(b, fin.err)
            ELSE PredicateBuilder_push(b,
                    IF mode = "not" THEN Combinator("not", <<fin.expr>>) ELSE fin.expr)

PredicateBuilder_run(b, script, i) ==
    IF i > Len(script) THEN PR(b, NoError)
    ELSE LET c == script[i]
             r == CASE c.cmd = "cmp" -> PredicateBuilder_compare(b, c.op, c.prop, c.value)
                    [] c.cmd = "between" ->
                            PredicateBuilder_between(b, c.prop, c.value, c.high, c.seq)
                    [] c.cmd = "in" -> PredicateBuilder_in(b, c.prop, c.seq)
                    [] OTHER -> PredicateBuilder_group(b, c.mode, c.body)
         IN IF r.err # NoError THEN r ELSE PredicateBuilder_run(r.b, script, i + 1)

(* _PredicateBuilder.done: the builder and the query after it, the error. *)
PredicateBuilder_done(b, q) ==
    IF ~b.has_parent THEN [b |-> b, q |-> q, err |-> "RuntimeError"]
    ELSE LET fin == PredicateBuilder_finalize_expr(b) IN
         IF fin.err # NoError THEN [b |-> b, q |-> q, err |-> fin.err]
         ELSE [b |-> fin.b, q |-> QueryBuilder_append_predicate(q, fin.expr, "and"),
               err |-> NoError]

(* The variables named by the comparisons of a predicate tree. *)
RECURSIVE PredicateVars(_)
PredicateVars(node) ==
    IF node.op \in {"and", "or", "not"}
    THEN UNION {PredicateVars(node.args[i]) : i \in DOMAIN node.args}
    ELSE IF node.op = "None" THEN {} ELSE {node.var}

(* The [var, prop] pairs named by the comparisons of a predicate tree. *)
RECURSIVE PredicateProps(_)
PredicateProps(node) ==
    IF node.op \in {"and", "or", "not"}
    THEN UNION {PredicateProps(node.args[i]) : i \in DOMAIN node.args}
    ELSE IF node.op = "None" THEN {} ELSE {<<node.var, node.prop>>}

(* An expression built by the free helpers (eq, lt, and_, ...): no variable
   yet, and the values as the caller gave them. *)
Expr(op, prop, args, vals, incl) ==
    [op |-> op, prop |-> prop, args |-> args, vals |-> vals, incl |-> incl]

(* _ensure_scalar_literal: TRUE iff it raises (TypeError). *)
ensure_scalar_literal(value) ==
    value.ty \notin {"datetime", "bytes", "NoneType", "str", "int", "float", "bool"}

(* The free helper between(): the error it raises, the expression it builds
   (inclusive kept as None, here <<>>, or as two flags). *)
between(prop, low, high, inclusive) ==
    IF inclusive.ty # "NoneType" /\ ~inclusive_ok(inclusive)
    THEN [err |-> "ValueError", expr |-> Expr(None, None, <<>>, <<>>, <<>>)]
    ELSE IF normalize_prop_name(prop)
    THEN [err |-> "ValueError", expr |-> Expr(None, None, <<>>, <<>>, <<>>)]
    ELSE [err |-> NoError,
          expr |-> Expr("between", prop, <<>>, <<low, high>>,
                        IF inclusive.ty = "NoneType" THEN <<>>
                        ELSE inclusive_flags(inclusive.items))]

(* The free helper in_list() *)
in_list(prop, values) ==
    IF values.ty \notin {"list", "tuple"}
    THEN [err |-> "TypeError", expr |-> Expr(None, None, <<>>, <<>>, <<>>)]
    ELSE IF values.items = <<>>
    THEN [err |-> "ValueError", expr |-> Expr(None, None, <<>>, <<>>, <<>>)]
    ELSE IF \E i \in DOMAIN values.items : ensure_scalar_literal(values.items[i])
    THEN [err |-> "TypeError", expr |-> Expr(None, None, <<>>, <<>>, <<>>)]
    ELSE IF normalize_prop_name(prop)
    THEN [err |-> "ValueError", expr |-> Expr(None, None, <<>>, <<>>, <<>>)]
    ELSE [err |-> NoError, expr |-> Expr("in", prop, <<>>, values.items, <<>>)]

(* _normalize_inclusive_tuple, of the inclusive kept by between() *)
normalize_inclusive_tuple(incl) ==
    IF incl = <<>> THEN [err |-> NoError, flags |-> <<PyBool(TRUE), PyBool(TRUE)>>]
    ELSE IF Len(incl) = 2 /\ \A i \in DOMAIN incl : incl[i].ty = "bool"
    THEN [err |-> NoError, flags |-> inclusive_flags(incl)]
    ELSE [err |-> "ValueError", flags |-> <<>>]

(* _convert_in_list_values *)
convert_in_list_values(values) ==
    LET bad == {i \in DOMAIN values :
                    ensure_scalar_literal(values[i]) \/ literal_value_err(values[i]) # NoError}
        tagged == [i \in DOMAIN values |-> literal_value(values[i])]
    IN IF bad # {}
       THEN LET k == CHOOSE i \in bad : \A j \in bad : i <= j
            IN [err |-> IF ensure_scalar_literal(values[k]) THEN "TypeError"
                        ELSE literal_value_err(values[k]),
                tagged |-> <<>>]
       ELSE IF mixed_tags(tagged) THEN [err |-> "ValueError", tagged |-> <<>>]
       ELSE [err |-> NoError, tagged |-> tagged]

(* _translate_comparison_node *)
translate_comparison_node(q, var, node, validator) ==
    IF validator_err(validator, node.prop) # NoError
    THEN [err |-> validator_err(validator, node.prop), node |-> NoPredicate]
    ELSE IF node.op \in {"eq", "ne", "lt", "le", "gt", "ge"}
    THEN IF literal_value_err(node.vals[1]) # NoError
         THEN [err |-> literal_value_err(node.vals[1]), node |-> NoPredicate]
         ELSE IF node.op \in {"lt", "le", "gt", "ge"} /\ literal_value(node.vals[1]).t = "Null"
         THEN [err |-> "ValueError", node |-> NoPredicate]
         ELSE [err |-> NoError,
               node |-> Comparison(node.op, var, node.prop,
                                   <<literal_value(node.vals[1])>>, <<>>)]
    ELSE IF node.op = "between"
    THEN IF literal_value_err(node.vals[1]) # NoError
         THEN [err |-> literal_value_err(node.vals[1]), node |-> NoPredicate]
         ELSE IF literal_value_err(node.vals[2]) # NoError
         THEN [err |-> literal_value_err(node.vals[2]), node |-> NoPredicate]
         ELSE IF literal_value(node.vals[1]).t = "Null" \/ literal_value(node.vals[2]).t = "Null"
         THEN [err |-> "ValueError", node |-> NoPredicate]
         ELSE IF normalize_inclusive_tuple(node.incl).err # NoError
         THEN [err |-> "ValueError", node |-> NoPredicate]
         ELSE [err |-> NoError,
               node |-> Comparison("between", var, node.prop,
                                   <<literal_value(node.vals[1]), literal_value(node.vals[2])>>,
                                   normalize_inclusive_tuple(node.incl).flags)]
    ELSE IF node.op = "in"
    THEN IF node.vals = <<>> THEN [err |-> "ValueError", node |-> NoPredicate]
         ELSE IF convert_in_list_values(node.vals).err # NoError
         THEN [err |-> convert_in_list_values(node.vals).err, node |-> NoPredicate]
         ELSE [err |-> NoError,
               node |-> Comparison("in", var, node.prop,
                                   convert_in_list_values(node.vals).tagged, <<>>)]
    ELSE IF node.op \in {"exists", "isNull", "isNotNull"}
    THEN [err |-> NoError, node |-> Comparison(node.op, var, node.prop, <<>>, <<>>)]
    ELSE [err |-> "ValueError", node |-> NoPredicate]

(* _translate_expr_node *)
RECURSIVE translate_expr_node(_, _, _)
translate_expr_node(q, var, node) ==
    IF node.op \in {"and", "or", "not"}
    THEN IF node.args = <<>> \/ (node.op = "not" /\ Len(node.args) # 1)
         THEN [err |-> "ValueError", node |-> NoPredicate]
         ELSE LET kids == [i \in DOMAIN node.args |-> translate_expr_node(q, var, node.args[i])]
                  bad == {i \in DOMAIN kids : kids[i].err # NoError}
              IN IF bad # {}
                 THEN [err |-> kids[CHOOSE i \in bad : \A j \in bad : i <= j].err,
                       node |-> NoPredicate]
                 ELSE [err |-> NoError,
                       node |-> Combinator(node.op, [i \in DOMAIN kids |-> kids[i].node])]
    ELSE translate_comparison_node(q, var, node, QueryBuilder_make_prop_validator(q, var))

(* _stamp_expr_for_var followed by _append_predicate: _NodeScope.where,
   and_where (combinator "and") and or_where (combinator "or") *)
NodeScope_where_op(q, var, expr, combinator) ==
    IF QueryBuilder_require_label(q, var) THEN R(q, "requires a label")
    ELSE LET t == translate_expr_node(q, var, expr) IN
         IF t.err # NoError THEN R(q, t.err)
         ELSE R(QueryBuilder_append_predicate(q, t.node, combinator), NoError)

----------------------------------------------------------------------------
(* Projections *)

Projection(kind, var, prop, alias) ==
    [kind |-> kind, var |-> var, prop |-> prop, alias |-> alias]

(* A field handed to select(): a string (form "str"), a dict with "prop"
   (form "prop"), a dict with "var" and no "prop" (form "var"), a dict with
   "expr" only (form "expr"), any other dict (form "empty"), anything else
   (form "bad").  alias "<int>" stands for an alias that is not a string. *)
Field(form, var, prop, alias) == [form |-> form, var |-> var, prop |-> prop, alias |-> alias]

(* The body of select()'s loop for one field: the error it raises. *)
QueryBuilder_select_field_err(q, f) ==
    CASE f.form = "str" -> IF QueryBuilder_assert_match(q, f.var) THEN "unknown variable"
                           ELSE NoError
      [] f.form = "prop" ->
            IF f.var \in {None, ""} THEN "ValueError"
            ELSE IF f.prop \in {None, ""} THEN "ValueError"
            ELSE IF f.alias = "<int>" THEN "ValueError"
            ELSE IF QueryBuilder_assert_match(q, f.var) THEN "unknown variable"
            ELSE validator_err(QueryBuilder_make_prop_validator(q, f.var), f.prop)
      [] f.form = "var" -> IF QueryBuilder_assert_match(q, f.var) THEN "unknown variable"
                           ELSE NoError
      [] OTHER -> "ValueError"

(* The projection select() builds from a field that passed. *)
QueryBuilder_select_field(f) ==
    IF f.form = "prop" THEN Projection("prop", f.var, f.prop, f.alias)
    ELSE IF f.form = "str" THEN Projection("var", f.var, None, None)
    ELSE Projection("var", f.var, None, f.alias)

(* A select() that keeps the projections it already had. *)
QueryBuilder_select_append(q, fields) ==
    LET bad == {i \in DOMAIN fields : QueryBuilder_select_field_err(q, fields[i]) # NoError}
    IN IF bad # {}
       THEN R(q, QueryBuilder_select_field_err(q, fields[CHOOSE i \in bad : \A j \in bad : i <= j]))
       ELSE R([q EXCEPT !.projections =
                    @ \o [i \in DOMAIN fields |-> QueryBuilder_select_field(fields[i])]], NoError)

(* A select() that does not look its variables up. *)
QueryBuilder_select_unchecked(q, fields) ==
    R([q EXCEPT !.projections = [i \in DOMAIN fields |-> QueryBuilder_select_field(fields[i])]],
      NoError)

(* QueryBuilder.select *)
QueryBuilder_select_op(q, fields) ==
    LET bad == {i \in DOMAIN fields : QueryBuilder_select_field_err(q, fields[i]) # NoError}
    IN IF bad # {}
       THEN R(q, QueryBuilder_select_field_err(q, fields[CHOOSE i \in bad : \A j \in bad : i <= j]))
       ELSE R([q EXCEPT !.projections =
                    [i \in DOMAIN fields |-> QueryBuilder_select_field(fields[i])]], NoError)

(* QueryBuilder._select_props: every key before the first one the validator
   rejects is appended. *)
RECURSIVE select_props_loop(_, _, _, _, _)
select_props_loop(q, var, validator, keys, i) ==
    IF i > Len(keys) THEN R(q, NoError)
    ELSE IF validator_err(validator, keys[i]) # NoError
    THEN R(q, validator_err(validator, keys[i]))
    ELSE select_props_loop([q EXCEPT !.projections =
                                Append(@, Projection("prop", var, keys[i], None))],
                           var, validator, keys, i + 1)

QueryBuilder_select_props(q, var, keys) ==
    IF QueryBuilder_assert_match(q, var) THEN R(q, "unknown variable")
    ELSE select_props_loop(q, var, QueryBuilder_make_prop_validator(q, var), keys, 1)

(* _NodeScope.select *)
NodeScope_select_op(q, var, keys) ==
    IF keys = <<>> THEN R(q, "ValueError") ELSE QueryBuilder_select_props(q, var, keys)

(* A callback body run against a node scope: [cmd |-> "where"] (where and
   and_where), "or_where" or "select"; the first command that raises ends the
   callback with its error, what the earlier ones did stays. *)
ScopeCmd(cmd, expr, keys) == [cmd |-> cmd, expr |-> expr, keys |-> keys]

RECURSIVE NodeScope_run(_, _, _, _)
NodeScope_run(q, var, script, i) ==
    IF i > Len(script) THEN R(q, NoError)
    ELSE LET c == script[i]
             r == CASE c.cmd = "where" -> NodeScope_where_op(q, var, c.expr, "and")
                    [] c.cmd = "or_where" -> NodeScope_where_op(q, var, c.expr, "or")
                    [] OTHER -> NodeScope_select_op(q, var, c.keys)
         IN IF r.err # NoError THEN r ELSE NodeScope_run(r.q, var, script, i + 1)

(* QueryBuilder.on *)
QueryBuilder_on_op(q, var, script) ==
    IF var \in {None, ""} THEN R(q, "ValueError")
    ELSE IF QueryBuilder_assert_match(q, var) THEN R(q, "unknown variable")
    ELSE IF QueryBuilder_require_label(q, var) THEN R(q, "requires a label")
    ELSE NodeScope_run(q, var, script, 1)

(* A where_var() that does not look its variable up. *)
QueryBuilder_where_var_unchecked(q, var) == IF var \in {None, ""} THEN "ValueError" ELSE NoError

(* QueryBuilder.where_var up to the construction of the predicate builder:
   the error it raises. *)
QueryBuilder_where_var_err(q, var) ==
    IF var \in {None, ""} THEN "ValueError"
    ELSE IF QueryBuilder_assert_match(q, var) THEN "unknown variable"
    ELSE NoError

(* QueryBuilder.where_var(var, build): the callback runs, then done(). *)
QueryBuilder_where_var_op(q, var, script) ==
    IF QueryBuilder_where_var_err(q, var) # NoError THEN R(q, QueryBuilder_where_var_err(q, var))
    ELSE LET b == PredicateBuilder_init(TRUE, var, "and", QueryBuilder_make_prop_validator(q, var))
             ran == PredicateBuilder_run(b, script, 1)
         IN IF ran.err # NoError THEN R(q, ran.err)
            ELSE LET d == PredicateBuilder_done(ran.b, q) IN R(d.q, d.err)

(* A _build that submits the projection list as it is, empty or not. *)
QueryBuilder_build_no_default(q) ==
    [schemaVersion |-> 1,
     matches |-> q.matches,
     edges |-> q.edges,
     distinct |-> q.distinct,
     projections |-> q.projections,
     predicate |-> q.predicate,
     request_id |-> q.request_id,
     redact_literals |-> FALSE]

(* QueryBuilder._build *)
QueryBuilder_build(q) ==
    [schemaVersion |-> 1,
     matches |-> q.matches,
     edges |-> q.edges,
     distinct |-> q.distinct,
     projections |-> IF q.projections # <<>> THEN q.projections
                     ELSE [i \in DOMAIN q.matches |->
                              Projection("var", q.matches[i].var, None, None)],
     predicate |-> q.predicate,
     request_id |-> q.request_id,
     redact_literals |-> FALSE]

----------------------------------------------------------------------------
(* QueryBuilder: the calls as actions *)

(* A builder call that returns or raises without reaching the Engine. *)
QueryCall(call, r) ==
    /\ calls' = calls + 1
    /\ qb' = r.q
    /\ ret' = Ret(call, r.err, 0)
    /\ UNCHANGED <<db_closed, eng>>

QueryBuilder_nodes(label) ==
    /\ QueryCall("nodes", QueryBuilder_nodes_op(qb, label))
    /\ scopes' = IF label = "" THEN scopes
                 ELSE scopes \cup {auto_var_name(qb.next_var_idx)}
    /\ UNCHANGED pb

QueryBuilder_match(target) ==
    /\ QueryCall("match", QueryBuilder_match_op(qb, target))
    /\ UNCHANGED <<scopes, pb>>

QueryBuilder_match_map(entries) ==
    /\ QueryCall("match", QueryBuilder_match_map_op(qb, entries))
    /\ UNCHANGED <<scopes, pb>>

QueryBuilder_where(edge_type, target) ==
    /\ QueryCall("where", QueryBuilder_where_op(qb, edge_type, target))
    /\ UNCHANGED <<scopes, pb>>

QueryBuilder_direction(direction) ==
    /\ QueryCall("direction", QueryBuilder_direction_op(qb, direction))
    /\ UNCHANGED <<scopes, pb>>

QueryBuilder_bidirectional ==
    /\ QueryCall("bidirectional", QueryBuilder_bidirectional_op(qb))
    /\ UNCHANGED <<scopes, pb>>

(* on(var, callback): the callback may keep the scope it was handed. *)
QueryBuilder_on(var, script) ==
    /\ QueryCall("on", QueryBuilder_on_op(qb, var, script))
    /\ scopes' = IF \/ var \in {None, ""}
                    \/ QueryBuilder_assert_match(qb, var)
                    \/ QueryBuilder_require_label(qb, var)
                 THEN scopes ELSE scopes \cup {var}
    /\ UNCHANGED pb

QueryBuilder_select(fields) ==
    /\ QueryCall("select", QueryBuilder_select_op(qb, fields))
    /\ UNCHANGED <<scopes, pb>>

(* QueryBuilder.execute -> Database._execute *)
QueryBuilder_execute(outcome) ==
    /\ calls' = calls + 1
    /\ UNCHANGED <<db_closed, qb, scopes, pb>>
    /\ IF Database_assert_open(db_closed)
       THEN ret' = Ret("execute", "ClosedError", 0) /\ UNCHANGED eng
       ELSE /\ eng' = Append(eng, EngineCall("database_execute", QueryBuilder_build(qb), outcome))
            /\ ret' = Ret("execute", wrap_native_call(outcome), 0)

(* QueryBuilder.explain -> Database._explain *)
QueryBuilder_explain(redact_literals, outcome) ==
    /\ calls' = calls + 1
    /\ UNCHANGED <<db_closed, qb, scopes, pb>>
    /\ IF Database_assert_open(db_closed)
       THEN ret' = Ret("explain", "ClosedError", 0) /\ UNCHANGED eng
       ELSE /\ eng' = Append(eng,
                    EngineCall("database_explain",
                               [QueryBuilder_build(qb) EXCEPT !.redact_literals = redact_literals],
                               outcome))
            /\ ret' = Ret("explain", wrap_native_call(outcome), 0)

(* where_var(var, build) *)
QueryBuilder_where_var_build(var, script) ==
    /\ QueryCall("where_var", QueryBuilder_where_var_op(qb, var, script))
    /\ UNCHANGED <<scopes, pb>>

(* where_var(var): the predicate builder is handed to the caller. *)
QueryBuilder_where_var(var) ==
    /\ QueryCall("where_var", R(qb, QueryBuilder_where_var_err(qb, var)))
    /\ pb' = IF QueryBuilder_where_var_err(qb, var) # NoError THEN pb
             ELSE <<PredicateBuilder_init(TRUE, var, "and",
                                          QueryBuilder_make_prop_validator(qb, var))>>
    /\ UNCHANGED scopes

(* A comparison or a group called on the predicate builder the caller holds. *)
PredicateBuilder_call(c) ==
    /\ pb # <<>>
    /\ LET r == PredicateBuilder_run(pb[1], <<c>>, 1) IN
          /\ QueryCall("predicate", R(qb, r.err))
          /\ pb' = <<r.b>> \o Tail(pb)
    /\ UNCHANGED scopes

(* done() called on the predicate builder the caller holds. *)
PredicateBuilder_done_call ==
    /\ pb # <<>>
    /\ LET d == PredicateBuilder_done(pb[1], qb) IN
          /\ QueryCall("done", R(d.q, d.err))
          /\ pb' = <<d.b>> \o Tail(pb)
    /\ UNCHANGED scopes

(* and_/or_/not_ called on the predicate builder the caller holds, with a
   callback that keeps the nested builder it was given: the caller holds it
   (second) after the call, as the group left it. *)
PredicateBuilder_group_kept(mode, body) ==
    /\ pb # <<>>
    /\ LET r == PredicateBuilder_group(pb[1], mode, body)
           nested == PredicateBuilder_init(FALSE, pb[1].var,
                                           IF mode = "not" THEN "and" ELSE mode,
                                           pb[1].validator)
           ran == PredicateBuilder_run(nested, body, 1)
       IN /\ QueryCall("group", R(qb, r.err))
          /\ pb' = <<r.b,
                     IF ran.err # NoError THEN ran.b
                     ELSE PredicateBuilder_finalize_expr(ran.b).b>>
    /\ UNCHANGED scopes

(* A comparison or a group called on the nested builder the caller kept. *)
PredicateBuilder_nested_call(c) ==
    /\ Len(pb) = 2
    /\ LET r == PredicateBuilder_run(pb[2], <<c>>, 1) IN
          /\ QueryCall("nested.predicate", R(qb, r.err))
          /\ pb' = <<pb[1], r.b>>
    /\ UNCHANGED scopes

(* done() called on the nested builder the caller kept. *)
PredicateBuilder_nested_done ==
    /\ Len(pb) = 2
    /\ LET d == PredicateBuilder_done(pb[2], qb) IN
          /\ QueryCall("nested.done", R(d.q, d.err))
          /\ pb' = <<pb[1], d.b>>
    /\ UNCHANGED scopes

(* where(), and_where() or or_where() called on a scope the caller holds. *)
NodeScope_where(var, expr, combinator) ==
    /\ var \in scopes
    /\ QueryCall("scope.where", NodeScope_where_op(qb, var, expr, combinator))
    /\ UNCHANGED <<scopes, pb>>

(* select() called on a scope the caller holds. *)
NodeScope_select(var, keys) ==
    /\ var \in scopes
    /\ QueryCall("scope.select", NodeScope_select_op(qb, var, keys))
    /\ UNCHANGED <<scopes, pb>>

----------------------------------------------------------------------------
(* QueryBuilder.request_id *)

(* A strip() that removes leading whitespace only. *)
strip_leading(chars) == SubSeq(chars, run_length(chars, 1, WhitespaceChars) + 1, Len(chars))

(* str.strip(): the string without its leading and trailing whitespace. *)
strip(chars) ==
    LET kept == {i \in DOMAIN chars : chars[i] \notin WhitespaceChars} IN
    IF kept = {} THEN <<>>
    ELSE SubSeq(chars,
                CHOOSE i \in kept : \A j \in kept : i <= j,
                CHOOSE i \in kept : \A j \in kept : j <= i)

(* A value handed to request_id(): None, a string, anything else. *)
IdValue(ty, chars) == [ty |-> ty, chars |-> chars]

(* QueryBuilder.request_id *)
QueryBuilder_request_id_op(q, value) ==
    IF value.ty = "NoneType" THEN R([q EXCEPT !.request_id = NoRequestId], NoError)
    ELSE IF value.ty # "str" THEN R(q, "ValueError")
    ELSE IF strip(value.chars) = <<>> THEN R(q, "ValueError")
    ELSE R([q EXCEPT !.request_id = RequestId(strip(value.chars))], NoError)

QueryBuilder_request_id(value) ==
    /\ QueryCall("request_id", QueryBuilder_request_id_op(qb, value))
    /\ UNCHANGED <<scopes, pb>>

(* QueryBuilder.distinct *)
QueryBuilder_distinct_op(q) == R([q EXCEPT !.distinct = TRUE], NoError)

QueryBuilder_distinct ==
    /\ QueryCall("distinct", QueryBuilder_distinct_op(qb))
    /\ UNCHANGED <<scopes, pb>>

(* Whose object a part of a built spec is: "builder" when the spec holds the
   very dict the builder holds, "copy" when it holds a copy of it, "fresh"
   when _build made it, "none" when the spec has no such part. *)

(* A _clone that hands back the object it was given. *)
clone_shared(ref) == ref

(* _clone: copy.deepcopy *)
clone(ref) == "copy"

(* QueryBuilder._build, as to what the spec's projections and predicate
   refer to. *)
QueryBuilder_build_refs(q) ==
    [projections |-> IF q.projections # <<>> THEN clone("builder") ELSE "fresh",
     predicate |-> IF q.predicate # NoPredicate THEN clone("builder") ELSE "none"]

----------------------------------------------------------------------------
(* The free expression helpers, called *)

(* The free helpers eq, ne, lt, le, gt and ge: the error raised, the
   expression built (the value is kept as the caller gave it). *)
compare(op, prop, value) ==
    IF normalize_prop_name(prop)
    THEN [err |-> "ValueError", expr |-> Expr(None, None, <<>>, <<>>, <<>>)]
    ELSE [err |-> NoError, expr |-> Expr(op, prop, <<>>, <<value>>, <<>>)]

(* The free helpers and_ and or_ *)
combine(op, exprs) ==
    IF exprs = <<>>
    THEN [err |-> "ValueError", expr |-> Expr(None, None, <<>>, <<>>, <<>>)]
    ELSE [err |-> NoError, expr |-> Expr(op, None, exprs, <<>>, <<>>)]

(* One call of a free helper, described like a command of a predicate
   builder: a comparison, a between, an in_list, or and_/or_ of the
   expressions its body makes (the first helper that raises ends it). *)
helper_leaf(c) ==
    CASE c.cmd = "cmp" -> compare(c.op, c.prop, c.value)
      [] c.cmd = "between" -> between(c.prop, c.value, c.high, c.seq)
      [] OTHER -> in_list(c.prop, c.seq)

helper_apply(c) ==
    IF c.cmd # "group" THEN helper_leaf(c)
    ELSE LET kids == [i \in DOMAIN c.body |-> helper_leaf(c.body[i])]
             bad == {i \in DOMAIN kids : kids[i].err # NoError}
         IN IF bad # {}
            THEN [err |-> kids[CHOOSE i \in bad : \A j \in bad : i <= j].err,
                  expr |-> Expr(None, None, <<>>, <<>>, <<>>)]
            ELSE combine(c.mode, [i \in DOMAIN kids |-> kids[i].expr])

(* A free helper is called: the caller holds what it returned, or its error. *)
helper_call(c) ==
    /\ fn_arg' = <<c>>
    /\ fn_out' = <<helper_apply(c)>>
    /\ UNCHANGED <<dbVars, qbVars>>

(* where() called on a scope with the expression the last helper returned. *)
NodeScope_where_helper(var, combinator) ==
    /\ fn_out # <<>>
    /\ fn_out[1].err = NoError
    /\ NodeScope_where(var, fn_out[1].expr, combinator)
    /\ UNCHANGED fnVars

----------------------------------------------------------------------------
(* _QueryStream *)

(* The guard of __anext__ (if self._closed: raise StopAsyncIteration) without
   its test. *)
QueryStream_anext_guard_missing(closed) == FALSE

(* __anext__'s first statement: TRUE iff it raises StopAsyncIteration at once. *)
QueryStream_anext_guard(closed) == closed

(* QueryBuilder.stream -> Database._stream -> _QueryStream.__init__ *)
QueryBuilder_stream(spec, outcome, nrows) ==
    /\ calls < MaxCalls
    /\ st_handle = 0
    /\ calls' = calls + 1
    /\ UNCHANGED <<db_closed, has_stream_close, st_closed, st_pulled, st_dead,
                   st_close_called>>
    /\ IF Database_assert_open(db_closed)
       THEN /\ ret' = Ret("stream", "ClosedError", 0)
            /\ UNCHANGED <<eng, st_handle, st_rows>>
       ELSE /\ eng' = Append(eng, EngineCall("database_stream", spec, outcome))
            /\ ret' = Ret("stream", wrap_native_call(outcome), 0)
            /\ IF outcome = "ok"
               THEN st_handle' = 1 /\ st_rows' = nrows
               ELSE UNCHANGED <<st_handle, st_rows>>

(* _QueryStream.close, as a step on (closed, eng): used by close() and by
   __anext__ at the end marker. *)
QueryStream_close_eng(outcome) ==
    IF st_closed \/ ~has_stream_close
    THEN eng
    ELSE Append(eng, EngineCall("stream_close", st_handle, outcome))

QueryStream_close_err(outcome) ==
    IF st_closed \/ ~has_stream_close THEN NoError ELSE wrap_native_call(outcome)

(* _QueryStream.close *)
QueryStream_close(outcome) ==
    /\ calls < MaxCalls
    /\ st_handle # 0 /\ ~st_dead
    /\ calls' = calls + 1
    /\ UNCHANGED <<db_closed, has_stream_close, st_handle, st_rows, st_pulled, st_dead>>
    /\ st_close_called' = TRUE
    /\ st_closed' = TRUE
    /\ eng' = QueryStream_close_eng(outcome)
    /\ ret' = Ret("stream.close", QueryStream_close_err(outcome), 0)

(* _QueryStream.__anext__: `outcome` is the Engine's answer to stream_next (a
   row or the end marker when "ok"), `closeOutcome` its answer to the
   stream_close that follows the end marker. *)
QueryStream_anext(outcome, closeOutcome) ==
    /\ calls < MaxCalls
    /\ st_handle # 0 /\ ~st_dead
    /\ calls' = calls + 1
    /\ UNCHANGED <<db_closed, has_stream_close, st_handle, st_dead, st_close_called>>
    /\ IF QueryStream_anext_guard(st_closed)
       THEN /\ ret' = Ret("anext", "StopAsyncIteration", 0)
            /\ UNCHANGED <<eng, st_closed, st_rows, st_pulled>>
       ELSE IF outcome # "ok"
       THEN /\ eng' = Append(eng, EngineCall("stream_next", st_handle, outcome))
            /\ ret' = Ret("anext", wrap_native_call(outcome), 0)
            /\ UNCHANGED <<st_closed, st_rows, st_pulled>>
       ELSE IF st_rows > 0
       THEN /\ eng' = Append(eng, EngineCall("stream_next", st_handle, "row"))
            /\ st_rows' = st_rows - 1
            /\ st_pulled' = st_pulled + 1
            /\ ret' = Ret("anext", NoError, st_pulled + 1)
            /\ UNCHANGED st_closed
       ELSE /\ st_closed' = TRUE
            /\ eng' = eng \o
                    (IF has_stream_close
                     THEN <<EngineCall("stream_next", st_handle, "end"),
                            EngineCall("stream_close", st_handle, closeOutcome)>>
                     ELSE <<EngineCall("stream_next", st_handle, "end")>>)
            /\ ret' = Ret("anext",
                          IF has_stream_close /\ closeOutcome # "ok"
                          THEN wrap_native_call(closeOutcome)
                          ELSE "StopAsyncIteration", 0)
            /\ UNCHANGED <<st_rows, st_pulled>>

(* _QueryStream.__del__ *)
QueryStream_del(outcome) ==
    /\ calls < MaxCalls
    /\ st_handle # 0 /\ ~st_dead
    /\ calls' = calls + 1
    /\ UNCHANGED <<db_closed, has_stream_close, st_handle, st_rows, st_pulled,
                   st_close_called>>
    /\ st_dead' = TRUE
    /\ st_closed' = TRUE
    /\ eng' = QueryStream_close_eng(outcome)
    /\ ret' = Ret("stream.del", NoError, 0)

----------------------------------------------------------------------------
(* Mutation scripts *)

(* One operation of a mutation script; a field an operation does not carry
   holds its default. *)
MutationOp(op, id, labels, src, dst, ty, props, unset, cascade) ==
    [op |-> op, id |-> id, labels |-> labels, src |-> src, dst |-> dst, ty |-> ty,
     props |-> props, unset |-> unset, cascade |-> cascade]
CreateNodeOp(labels, props) == MutationOp("createNode", 0, labels, 0, 0, None, props, {}, FALSE)
UpdateNodeOp(id, set_props, unset) ==
    MutationOp("updateNode", id, <<>>, 0, 0, None, set_props, unset, FALSE)
DeleteNodeOp(id, cascade) == MutationOp("deleteNode", id, <<>>, 0, 0, None, NoProps, {}, cascade)
CreateEdgeOp(src, dst, ty, props) == MutationOp("createEdge", 0, <<>>, src, dst, ty, props, {}, FALSE)
UpdateEdgeOp(id, set_props, unset) ==
    MutationOp("updateEdge", id, <<>>, 0, 0, None, set_props, unset, FALSE)
DeleteEdgeOp(id) == MutationOp("deleteEdge", id, <<>>, 0, 0, None, NoProps, {}, FALSE)

(* int(value): TRUE iff it raises (a str value stands for non-numeric text). *)
int_err(value) == value.ty \notin {"int", "bool"}

(* Database.mutate: the error it raises, and the Engine calls it makes. *)
Database_mutate_err(closed, outcome) ==
    IF Database_assert_open(closed) THEN "ClosedError" ELSE wrap_native_call(outcome)
Database_mutate_eng(closed, script, outcome) ==
    IF Database_assert_open(closed) THEN <<>>
    ELSE <<EngineCall("database_mutate", script, outcome)>>

(* Database.create_node *)
Database_create_node(label, props, outcome) ==
    /\ calls' = calls + 1
    /\ eng' = eng \o Database_mutate_eng(db_closed,
                    [ops |-> <<CreateNodeOp(<<label>>, props)>>], outcome)
    /\ ret' = Ret("create_node", Database_mutate_err(db_closed, outcome), 0)
    /\ UNCHANGED db_closed

(* Database.create_edge *)
Database_create_edge(src, dst, ty, props, outcome) ==
    /\ calls' = calls + 1
    /\ IF ~Database_assert_open(db_closed) /\ (int_err(src) \/ int_err(dst))
       THEN /\ ret' = Ret("create_edge", "ValueError", 0)
            /\ UNCHANGED eng
       ELSE /\ eng' = eng \o Database_mutate_eng(db_closed,
                        [ops |-> <<CreateEdgeOp(src.v, dst.v, ty, props)>>], outcome)
            /\ ret' = Ret("create_edge", Database_mutate_err(db_closed, outcome), 0)
    /\ UNCHANGED db_closed

----------------------------------------------------------------------------
(* _MutationBatch and Database.transaction *)

(* A batch whose _ensure_mutable never raises. *)
MutationBatch_ensure_mutable_never(sealed) == FALSE

(* _MutationBatch._ensure_mutable: TRUE iff it raises "transaction already
   committed". *)
MutationBatch_ensure_mutable(sealed) == sealed

(* _MutationBatch._queue, reached once the arguments have been converted:
   arg_err says that converting them raised. *)
MutationBatch_queue_op(call, arg_err, op) ==
    /\ tx_pc \in {"fn", "done"}
    /\ calls' = calls + 1
    /\ UNCHANGED <<db_closed, eng, batch_sealed, tx_pc, tx_drained>>
    /\ IF arg_err
       THEN /\ ret' = Ret(call, "ValueError", 0)
            /\ UNCHANGED <<batch_ops, tx_queued>>
       ELSE IF MutationBatch_ensure_mutable(batch_sealed)
       THEN /\ ret' = Ret(call, "transaction already committed", 0)
            /\ UNCHANGED <<batch_ops, tx_queued>>
       ELSE /\ batch_ops' = Append(batch_ops, op)
            /\ tx_queued' = Append(tx_queued, op)
            /\ ret' = Ret(call, NoError, 0)

MutationBatch_queue(op) == MutationBatch_queue_op("batch.queue", FALSE, op)

MutationBatch_create_node(label, props) ==
    MutationBatch_queue_op("batch.create_node", FALSE, CreateNodeOp(<<label>>, props))

MutationBatch_update_node(node_id, set_props, unset) ==
    MutationBatch_queue_op("batch.update_node", int_err(node_id),
                           UpdateNodeOp(node_id.v, set_props, unset))

MutationBatch_delete_node(node_id, cascade) ==
    MutationBatch_queue_op("batch.delete_node", int_err(node_id), DeleteNodeOp(node_id.v, cascade))

MutationBatch_create_edge(src, dst, ty, props) ==
    MutationBatch_queue_op("batch.create_edge", int_err(src) \/ int_err(dst),
                           CreateEdgeOp(src.v, dst.v, ty, props))

MutationBatch_update_edge(edge_id, set_props, unset) ==
    MutationBatch_queue_op("batch.update_edge", int_err(edge_id),
                           UpdateEdgeOp(edge_id.v, set_props, unset))

MutationBatch_delete_edge(edge_id) ==
    MutationBatch_queue_op("batch.delete_edge", int_err(edge_id), DeleteEdgeOp(edge_id.v))

(* _MutationBatch.drain, called by the callback or through a reference it
   kept. *)
MutationBatch_drain ==
    /\ tx_pc \in {"fn", "done"}
    /\ calls' = calls + 1
    /\ batch_sealed' = TRUE
    /\ batch_ops' = <<>>
    /\ tx_drained' = Append(tx_drained, batch_ops)
    /\ ret' = Ret("batch.drain", NoError, 0)
    /\ UNCHANGED <<db_closed, eng, tx_pc, tx_queued>>

(* Database.transaction up to the call of fn(batch) *)
Database_transaction_begin ==
    /\ tx_pc # "fn"
    /\ calls' = calls + 1
    /\ UNCHANGED <<db_closed, eng>>
    /\ IF Database_assert_open(db_closed)
       THEN /\ ret' = Ret("transaction", "ClosedError", 0)
            /\ UNCHANGED <<batch_ops, batch_sealed, tx_pc, tx_queued, tx_drained>>
       ELSE /\ tx_pc' = "fn"
            /\ batch_ops' = <<>>
            /\ batch_sealed' = FALSE
            /\ tx_queued' = <<>>
            /\ tx_drained' = <<>>
            /\ ret' = Ret("transaction.fn", NoError, 0)

(* fn(batch) raises: transaction() lets the exception through. *)
Database_transaction_fn_raises ==
    /\ tx_pc = "fn"
    /\ calls' = calls + 1
    /\ tx_pc' = "done"
    /\ ret' = Ret("transaction", "callback error", 0)
    /\ UNCHANGED <<db_closed, eng, batch_ops, batch_sealed, tx_queued, tx_drained>>

(* fn(batch) returns: Database.transaction from the test of its result on *)
Database_transaction_return(awaitable, outcome) ==
    /\ tx_pc = "fn"
    /\ calls' = calls + 1
    /\ tx_pc' = "done"
    /\ UNCHANGED <<db_closed, tx_queued>>
    /\ IF awaitable
       THEN /\ ret' = Ret("transaction", "RuntimeError", 0)
            /\ UNCHANGED <<eng, batch_ops, batch_sealed, tx_drained>>
       ELSE /\ batch_sealed' = TRUE
            /\ batch_ops' = <<>>
            /\ tx_drained' = Append(tx_drained, batch_ops)
            /\ eng' = eng \o Database_mutate_eng(db_closed, [ops |-> batch_ops], outcome)
            /\ ret' = Ret("transaction", Database_mutate_err(db_closed, outcome), 0)

----------------------------------------------------------------------------
(* SombraDB: the typed facade *)

(* SombraDB._schema: Python None, or the normalized graph schema. *)
TypedSchemaNone == [isNone |-> TRUE, nodes |-> <<>>, edges |-> <<>>]
TypedSchemaUser ==
    [isNone |-> FALSE,
     nodes |-> [l \in {"User"} |-> {"name"}],
     edges |-> [t \in {"KNOWS"} |->
                   [properties |-> {"since"}, from_label |-> "User", to_label |-> "User"]]]

(* SombraDB._assert_node_label: the error it raises. *)
SombraDB_assert_node_label(schema, label) ==
    IF label \in {None, "", " "} THEN "TypeError"
    ELSE IF ~schema.isNone /\ label \notin DOMAIN schema.nodes THEN "ValueError"
    ELSE NoError

(* SombraDB._assert_edge_label: the error it raises. *)
SombraDB_assert_edge_label(schema, edge_type) ==
    IF edge_type \in {None, "", " "} THEN "TypeError"
    ELSE IF ~schema.isNone /\ edge_type \notin DOMAIN schema.edges THEN "ValueError"
    ELSE NoError

(* A _validate_node_props that accepts every property. *)
SombraDB_validate_node_props_never(schema, label, props) == FALSE

(* SombraDB._validate_node_props: TRUE iff it raises. *)
SombraDB_validate_node_props(schema, label, props) ==
    /\ ~schema.isNone
    /\ DOMAIN props # {}
    /\ label \in DOMAIN schema.nodes
    /\ ~(DOMAIN props \subseteq schema.nodes[label])

(* SombraDB._validate_edge_props: TRUE iff it raises. *)
SombraDB_validate_edge_props(schema, edge_type, props) ==
    /\ ~schema.isNone
    /\ DOMAIN props # {}
    /\ edge_type \in DOMAIN schema.edges
    /\ ~(DOMAIN props \subseteq schema.edges[edge_type].properties)

(* SombraDB._ensure_node_matches_label -> Database.get_node_record: the
   Engine call it makes and the error it raises; read is what the Engine
   answers: "match" (a node with the label), "other" (a node without it),
   "missing" (no node) or a wire code. *)
ensure_node_matches_label_eng(closed, node_id, read) ==
    IF Database_assert_open(closed) THEN <<>>
    ELSE <<EngineCall("database_get_node", node_id,
                      IF read \in {"match", "other", "missing"} THEN "ok" ELSE read)>>
ensure_node_matches_label_err(closed, read) ==
    IF Database_assert_open(closed) THEN "ClosedError"
    ELSE IF read = "match" THEN NoError
    ELSE IF read \in {"other", "missing"} THEN "ValueError"
    ELSE wrap_native_call(read)

(* The checks add_edge and bulk_load_edges make for one edge before they
   build its op: the Engine calls made and the error raised; reads holds the
   Engine's answers for the source and the target node. *)
SombraDB_edge_checks(schema, closed, src, dst, edge_type, props, reads) ==
    IF SombraDB_assert_edge_label(schema, edge_type) # NoError
    THEN [eng |-> <<>>, err |-> SombraDB_assert_edge_label(schema, edge_type)]
    ELSE IF SombraDB_validate_edge_props(schema, edge_type, props)
    THEN [eng |-> <<>>, err |-> "ValueError"]
    ELSE IF schema.isNone \/ edge_type \notin DOMAIN schema.edges
    THEN [eng |-> <<>>, err |-> NoError]
    ELSE LET e1 == ensure_node_matches_label_eng(closed, src, reads[1])
             r1 == ensure_node_matches_label_err(closed, reads[1])
         IN IF r1 # NoError THEN [eng |-> e1, err |-> r1]
            ELSE [eng |-> e1 \o ensure_node_matches_label_eng(closed, dst, reads[2]),
                  err |-> ensure_node_matches_label_err(closed, reads[2])]

(* SombraDB.add_node *)
SombraDB_add_node(label, props, outcome) ==
    /\ calls' = calls + 1
    /\ UNCHANGED db_closed
    /\ IF SombraDB_assert_node_label(sdb_schema, label) # NoError
       THEN /\ ret' = Ret("add_node", SombraDB_assert_node_label(sdb_schema, label), 0)
            /\ UNCHANGED eng
       ELSE IF SombraDB_validate_node_props(sdb_schema, label, props)
       THEN /\ ret' = Ret("add_node", "ValueError", 0)
            /\ UNCHANGED eng
       ELSE /\ eng' = eng \o Database_mutate_eng(db_closed,
                        [ops |-> <<CreateNodeOp(<<label>>, props)>>], outcome)
            /\ ret' = Ret("add_node", Database_mutate_err(db_closed, outcome), 0)

(* SombraDB.add_edge *)
SombraDB_add_edge(src, dst, edge_type, props, reads, outcome) ==
    /\ calls' = calls + 1
    /\ UNCHANGED db_closed
    /\ LET chk == SombraDB_edge_checks(sdb_schema, db_closed, src, dst, edge_type, props, reads)
       IN IF chk.err # NoError
          THEN /\ ret' = Ret("add_edge", chk.err, 0)
               /\ eng' = eng \o chk.eng
          ELSE /\ eng' = eng \o chk.eng \o Database_mutate_eng(db_closed,
                            [ops |-> <<CreateEdgeOp(src, dst, edge_type, props)>>], outcome)
               /\ ret' = Ret("add_edge", Database_mutate_err(db_closed, outcome), 0)

----------------------------------------------------------------------------
(* The chunked paths: Database.mutate_batched, SombraDB.bulk_load_nodes,
   SombraDB.bulk_load_edges *)

(* The chunk-size test of the three paths: TRUE iff it raises. *)
chunk_size_err(size) == size.ty \notin {"int", "bool"} \/ size.v <= 0

Min(a, b) == IF a <= b THEN a ELSE b

(* A loop that carries on with the next chunk after the Engine has failed. *)
loop_after_failure_continue(err, rest) == rest

(* What the loop does when self.mutate raises on a chunk: the exception
   leaves the loop, so the call ends with that error and the Engine calls
   of the later chunks (rest) are never made. *)
loop_after_failure(err, rest) == [eng |-> <<>>, err |-> err]

(* range(0, n, size): a stride one short of the chunk size. *)
next_chunk_start_overlap(i, size) == IF size > 1 THEN i + size - 1 ELSE i + size

(* range(0, n, size): where the next chunk starts. *)
next_chunk_start(i, size) == i + size

(* The Engine's answer to the j-th mutation of a chunked call: fail_at is the
   chunk the Engine fails on (0: none), with wire code `code`. *)
ChunkOutcome(j, fail_at, code) == IF j = fail_at THEN code ELSE "ok"

(* One self.mutate({"ops": ops}) of a loop, followed by the rest of the loop. *)
submit_chunk(closed, ops, outcome, rest) ==
    LET e == Database_mutate_eng(closed, [ops |-> ops], outcome)
        err == Database_mutate_err(closed, outcome)
    IN IF err # NoError
       THEN LET after == loop_after_failure(err, rest)
            IN [eng |-> e \o after.eng, err |-> after.err]
       ELSE [eng |-> e \o rest.eng, err |-> rest.err]

(* The loop of Database.mutate_batched over ops[i+1..], chunk j first. *)
RECURSIVE mutate_batched_loop(_, _, _, _, _, _, _)
mutate_batched_loop(closed, ops, size, i, j, fail_at, code) ==
    IF i >= Len(ops) THEN [eng |-> <<>>, err |-> NoError]
    ELSE submit_chunk(closed, SubSeq(ops, i + 1, Min(i + size, Len(ops))),
                      ChunkOutcome(j, fail_at, code),
                      mutate_batched_loop(closed, ops, size, next_chunk_start(i, size), j + 1,
                                          fail_at, code))

(* The loop of SombraDB.bulk_load_nodes over nodes[i+1..]: each record of a
   chunk is validated, then the chunk is submitted. *)
RECURSIVE bulk_load_nodes_loop(_, _, _, _, _, _, _, _, _)
bulk_load_nodes_loop(schema, closed, label, nodes, size, i, j, fail_at, code) ==
    IF i >= Len(nodes) THEN [eng |-> <<>>, err |-> NoError]
    ELSE LET chunk == SubSeq(nodes, i + 1, Min(i + size, Len(nodes))) IN
         IF \E k \in DOMAIN chunk : SombraDB_validate_node_props(schema, label, chunk[k])
         THEN [eng |-> <<>>, err |-> "ValueError"]
         ELSE submit_chunk(closed, [k \in DOMAIN chunk |-> CreateNodeOp(<<label>>, chunk[k])],
                           ChunkOutcome(j, fail_at, code),
                           bulk_load_nodes_loop(schema, closed, label, nodes, size,
                                                next_chunk_start(i, size), j + 1, fail_at, code))

(* The inner loop of SombraDB.bulk_load_edges over the records of one chunk,
   from record k on: the Engine reads made and the first error; bad_read is
   the input record whose source node the Engine reports under another label
   (0: none). *)
RECURSIVE bulk_load_edges_checks(_, _, _, _, _, _)
bulk_load_edges_checks(schema, closed, chunk, first, bad_read, k) ==
    IF k > Len(chunk) THEN [eng |-> <<>>, err |-> NoError]
    ELSE LET e == chunk[k]
             chk == SombraDB_edge_checks(schema, closed, e.src, e.dst, e.ty, e.props,
                        IF first + k = bad_read THEN <<"other", "match">>
                        ELSE <<"match", "match">>)
         IN IF chk.err # NoError THEN chk
            ELSE LET rest == bulk_load_edges_checks(schema, closed, chunk, first, bad_read, k + 1)
                 IN [eng |-> chk.eng \o rest.eng, err |-> rest.err]

(* The loop of SombraDB.bulk_load_edges over edges[i+1..]. *)
RECURSIVE bulk_load_edges_loop(_, _, _, _, _, _, _, _, _)
bulk_load_edges_loop(schema, closed, edges, size, i, j, fail_at, code, bad_read) ==
    IF i >= Len(edges) THEN [eng |-> <<>>, err |-> NoError]
    ELSE LET chunk == SubSeq(edges, i + 1, Min(i + size, Len(edges)))
             chk == bulk_load_edges_checks(schema, closed, chunk, i, bad_read, 1)
         IN IF chk.err # NoError THEN chk
            ELSE LET sub == submit_chunk(closed,
                                [k \in DOMAIN chunk |-> CreateEdgeOp(chunk[k].src, chunk[k].dst,
                                                                    chunk[k].ty, chunk[k].props)],
                                ChunkOutcome(j, fail_at, code),
                                bulk_load_edges_loop(schema, closed, edges, size,
                                                     next_chunk_start(i, size), j + 1,
                                                     fail_at, code, bad_read))
                 IN [eng |-> chk.eng \o sub.eng, err |-> sub.err]

(* The arguments of a chunked call and the length of the Engine log when it
   began. *)
BulkCall(path, label, items, size) ==
    [path |-> path, label |-> label, items |-> items, size |-> size, eng0 |-> Len(eng)]
NoBulkCall == [path |-> None, label |-> None, items |-> <<>>, size |-> PyInt(1), eng0 |-> 0]

(* Database.mutate_batched *)
Database_mutate_batched(ops, batch_size, fail_at, code) ==
    /\ calls' = calls + 1
    /\ UNCHANGED db_closed
    /\ bulk' = BulkCall("mutate_batched", None, ops, batch_size)
    /\ IF Database_assert_open(db_closed)
       THEN /\ ret' = Ret("mutate_batched", "ClosedError", 0)
            /\ UNCHANGED eng
       ELSE IF chunk_size_err(batch_size)
       THEN /\ ret' = Ret("mutate_batched", "ValueError", 0)
            /\ UNCHANGED eng
       ELSE LET run == mutate_batched_loop(db_closed, ops, batch_size.v, 0, 1, fail_at, code)
            IN /\ eng' = eng \o run.eng
               /\ ret' = Ret("mutate_batched", run.err, 0)

(* A mutation summary, as the Engine answers a mutation and as
   mutate_batched returns it. *)
MutationSummary(cn, ce, un, ue, dn, de) ==
    [createdNodes |-> cn, createdEdges |-> ce, updatedNodes |-> un, updatedEdges |-> ue,
     deletedNodes |-> dn, deletedEdges |-> de]

(* _empty_mutation_summary *)
empty_mutation_summary == MutationSummary(<<>>, <<>>, 0, 0, 0, 0)

(* A merge that puts the lists of the right summary first. *)
merge_mutation_summaries_swapped(lhs, rhs) ==
    MutationSummary(rhs.createdNodes \o lhs.createdNodes,
                    rhs.createdEdges \o lhs.createdEdges,
                    lhs.updatedNodes + rhs.updatedNodes,
                    lhs.updatedEdges + rhs.updatedEdges,
                    lhs.deletedNodes + rhs.deletedNodes,
                    lhs.deletedEdges + rhs.deletedEdges)

(* _merge_mutation_summaries *)
merge_mutation_summaries(lhs, rhs) ==
    MutationSummary(lhs.createdNodes \o rhs.createdNodes,
                    lhs.createdEdges \o rhs.createdEdges,
                    lhs.updatedNodes + rhs.updatedNodes,
                    lhs.updatedEdges + rhs.updatedEdges,
                    lhs.deletedNodes + rhs.deletedNodes,
                    lhs.deletedEdges + rhs.deletedEdges)

(* The summary Database.mutate_batched holds after chunks j..n, when it held
   `summary` before them and the Engine answers chunk k with parts[k]. *)
RECURSIVE mutate_batched_summary(_, _, _, _)
mutate_batched_summary(parts, j, n, summary) ==
    IF j > n THEN summary
    ELSE mutate_batched_summary(parts, j + 1, n, merge_mutation_summaries(summary, parts[j]))

(* Database.mutate_batched with an Engine that accepts every chunk and
   answers chunk k with parts[k]: the answers it gave are kept in chunk
   order, and the summary the call returned. *)
Database_mutate_batched_summary(ops, batch_size, parts) ==
    /\ Database_mutate_batched(ops, batch_size, 0, "IO")
    /\ LET n == Len(eng') - Len(eng) IN
          /\ fn_arg' = SubSeq(parts, 1, n)
          /\ fn_out' = IF ret'.err # NoError THEN <<>>
                       ELSE <<mutate_batched_summary(parts, 1, n, empty_mutation_summary)>>

(* SombraDB.bulk_load_nodes *)
SombraDB_bulk_load_nodes(label, nodes, chunk_size, fail_at, code) ==
    /\ calls' = calls + 1
    /\ UNCHANGED db_closed
    /\ bulk' = BulkCall("bulk_load_nodes", label, nodes, chunk_size)
    /\ IF SombraDB_assert_node_label(sdb_schema, label) # NoError
       THEN /\ ret' = Ret("bulk_load_nodes", SombraDB_assert_node_label(sdb_schema, label), 0)
            /\ UNCHANGED eng
       ELSE IF chunk_size_err(chunk_size)
       THEN /\ ret' = Ret("bulk_load_nodes", "ValueError", 0)
            /\ UNCHANGED eng
       ELSE LET run == bulk_load_nodes_loop(sdb_schema, db_closed, label, nodes, chunk_size.v,
                                            0, 1, fail_at, code)
            IN /\ eng' = eng \o run.eng
               /\ ret' = Ret("bulk_load_nodes", run.err, 0)

(* SombraDB.bulk_load_edges *)
SombraDB_bulk_load_edges(edges, chunk_size, fail_at, code, bad_read) ==
    /\ calls' = calls + 1
    /\ UNCHANGED db_closed
    /\ bulk' = BulkCall("bulk_load_edges", None, edges, chunk_size)
    /\ IF chunk_size_err(chunk_size)
       THEN /\ ret' = Ret("bulk_load_edges", "ValueError", 0)
            /\ UNCHANGED eng
       ELSE LET run == bulk_load_edges_loop(sdb_schema, db_closed, edges, chunk_size.v,
                                            0, 1, fail_at, code, bad_read)
            IN /\ eng' = eng \o run.eng
               /\ ret' = Ret("bulk_load_edges", run.err, 0)

----------------------------------------------------------------------------
(* Initial states *)

InitDb ==
    /\ db_closed = FALSE
    /\ eng = <<>>
    /\ ret = Ret("init", NoError, 0)
    /\ calls = 0

InitCreate ==
    /\ cb_nodes = <<>>
    /\ cb_edges = <<>>
    /\ cb_sealed = FALSE

InitStream ==
    /\ has_stream_close \in BOOLEAN
    /\ st_handle = 0
    /\ st_closed = FALSE
    /\ st_rows = 0
    /\ st_pulled = 0
    /\ st_dead = FALSE
    /\ st_close_called = FALSE

(* db.query() on an open database, opened with or without a schema *)
InitQuery ==
    /\ qb \in {QueryBuilder_init(sch) : sch \in {SchemaNone, SchemaUser}}
    /\ scopes = {}
    /\ pb = <<>>

(* SombraDB(path, schema=...) on top of an open database, no transaction and
   no chunked call made yet *)
InitMutate ==
    /\ sdb_schema \in {TypedSchemaNone, TypedSchemaUser}
    /\ batch_ops = <<>>
    /\ batch_sealed = FALSE
    /\ tx_pc = "idle"
    /\ tx_queued = <<>>
    /\ tx_drained = <<>>
    /\ bulk = NoBulkCall

IdleCreate == InitCreate
IdleMutate == InitMutate /\ sdb_schema = TypedSchemaNone

(* No function under study *)
IdleFn == fn_arg = <<>> /\ fn_out = <<>>
IdleStream == InitStream /\ has_stream_close = TRUE
IdleQuery == InitQuery /\ qb.schema = SchemaNone

----------------------------------------------------------------------------
(* The specifications: one per component *)

NextCreate ==
    \/ \E l \in {"User"}, p \in {NoProps, Props({"bogus"}, 1)}, a \in AliasInputs :
            calls < MaxCalls /\ CreateBuilder_node(l, p, a) /\ UNCHANGED <<stVars, qbVars, mutVars, fnVars>>
    \/ \E s \in RefInputs, d \in RefInputs, t \in {"", "KNOWS"}, p \in {NoProps} :
            calls < MaxCalls /\ CreateBuilder_edge(s, t, d, p) /\ UNCHANGED <<stVars, qbVars, mutVars, fnVars>>
    \/ \E o \in EngineOutcomes : calls < MaxCalls /\ CreateBuilder_execute(o) /\ UNCHANGED <<stVars, qbVars, mutVars, fnVars>>
    \/ \E o \in {"ok", "IO"} : Database_close(o) /\ UNCHANGED <<cbVars, stVars, qbVars, mutVars, fnVars>>

InitSpecCreate == InitDb /\ InitCreate /\ IdleStream /\ IdleQuery /\ IdleMutate /\ IdleFn
SpecCreate == InitSpecCreate /\ [][NextCreate]_vars

NextStream ==
    \/ \E o \in {"ok", "IO"}, n \in 0..MaxRows :
            QueryBuilder_stream(QueryBuilder_build(qb), o, n) /\ UNCHANGED <<cbVars, qbVars, mutVars, fnVars>>
    \/ \E o \in {"ok", "IO"}, c \in {"ok", "IO"} :
            QueryStream_anext(o, c) /\ UNCHANGED <<cbVars, qbVars, mutVars, fnVars>>
    \/ \E o \in {"ok", "IO"} : QueryStream_close(o) /\ UNCHANGED <<cbVars, qbVars, mutVars, fnVars>>
    \/ \E o \in {"ok", "IO"} : QueryStream_del(o) /\ UNCHANGED <<cbVars, qbVars, mutVars, fnVars>>
    \/ \E o \in {"ok", "IO"} : Database_close(o) /\ UNCHANGED <<cbVars, stVars, qbVars, mutVars, fnVars>>

InitSpecStream == InitDb /\ IdleCreate /\ InitStream /\ IdleQuery /\ IdleMutate /\ IdleFn
SpecStream == InitSpecStream /\ [][NextStream]_vars

(* The inputs of the query calls *)
TargetInputs ==
    {Target("str", None, "User"),
     Target("dict", None, "Post"),
     Target("dict", "a", None),
     Target("dict", "a", "User"),
     Target("dict", "a", "Post"),
     Target("dict", "a", ""),
     Target("dict", "n1", "User"),
     Target("bad", None, None)}
WhereTargetInputs ==
    {Target("str", None, "User"),
     Target("dict", "a", None),
     Target("dict", "n1", "Post"),
     Target("bad", None, None)}
MatchMapInputs ==
    {<<>>,
     <<[var |-> "a", form |-> "str", label |-> "User"]>>,
     <<[var |-> "a", form |-> "none", label |-> None],
       [var |-> "n1", form |-> "map", label |-> "Post"]>>,
     <<[var |-> "a", form |-> "map", label |-> None],
       [var |-> "b", form |-> "bad", label |-> None]>>}

(* Variable names handed to where_var(), on() and select(): declared by some
   runs, never declared ("zz"), empty. *)
RefVarInputs == {"a", "n0", "zz", ""}

EqName == CmpCmd("eq", "name", PyInt(5))
EqBogus == CmpCmd("eq", "bogus", PyInt(5))
PredicateCmdInputs == {EqName, EqBogus, GroupCmd("or", <<EqName, EqBogus>>)}
PredicateScriptInputs == {<<>>, <<EqName>>, <<EqName, EqBogus>>, <<GroupCmd("not", <<EqName>>)>>}

ExprEqName == Expr("eq", "name", <<>>, <<PyInt(5)>>, <<>>)
ExprEqBogus == Expr("eq", "bogus", <<>>, <<PyInt(5)>>, <<>>)
ExprInputs == {ExprEqName, ExprEqBogus, Expr("and", None, <<ExprEqName, ExprEqBogus>>, <<>>, <<>>)}
KeysInputs == {<<>>, <<"name">>, <<"name", "bogus">>}
ScopeScriptInputs ==
    {<<>>,
     <<ScopeCmd("where", ExprEqName, <<>>), ScopeCmd("select", ExprEqName, <<"name", "bogus">>)>>,
     <<ScopeCmd("or_where", ExprEqBogus, <<>>)>>}
FieldsInputs ==
    {<<Field("str", "a", None, None)>>,
     <<Field("str", "zz", None, None)>>,
     <<Field("prop", "a", "name", None)>>,
     <<Field("prop", "a", "bogus", "x")>>,
     <<Field("var", "n0", None, "x"), Field("prop", "zz", "name", None)>>,
     <<Field("expr", None, None, None), Field("str", "zz", None, None)>>}

(* A query-building session of at most MaxQueryCalls calls, over every kind
   of call. *)
NextQuery ==
    \/ \E l \in {"", "User", "Post"} :
            calls < MaxQueryCalls /\ QueryBuilder_nodes(l) /\ UNCHANGED <<cbVars, stVars, mutVars, fnVars>>
    \/ \E t \in TargetInputs :
            calls < MaxQueryCalls /\ QueryBuilder_match(t) /\ UNCHANGED <<cbVars, stVars, mutVars, fnVars>>
    \/ \E m \in MatchMapInputs :
            calls < MaxQueryCalls /\ QueryBuilder_match_map(m) /\ UNCHANGED <<cbVars, stVars, mutVars, fnVars>>
    \/ \E e \in {None, "KNOWS"}, t \in WhereTargetInputs :
            calls < MaxQueryCalls /\ QueryBuilder_where(e, t) /\ UNCHANGED <<cbVars, stVars, mutVars, fnVars>>
    \/ \E v \in RefVarInputs, s \in ScopeScriptInputs :
            calls < MaxQueryCalls /\ QueryBuilder_on(v, s) /\ UNCHANGED <<cbVars, stVars, mutVars, fnVars>>
    \/ \E f \in FieldsInputs :
            calls < MaxQueryCalls /\ QueryBuilder_select(f) /\ UNCHANGED <<cbVars, stVars, mutVars, fnVars>>
    \/ \E v \in RefVarInputs, s \in PredicateScriptInputs :
            calls < MaxQueryCalls /\ QueryBuilder_where_var_build(v, s)
                /\ UNCHANGED <<cbVars, stVars, mutVars, fnVars>>
    \/ \E v \in RefVarInputs :
            calls < MaxQueryCalls /\ QueryBuilder_where_var(v) /\ UNCHANGED <<cbVars, stVars, mutVars, fnVars>>
    \/ \E c \in PredicateCmdInputs :
            calls < MaxQueryCalls /\ PredicateBuilder_call(c) /\ UNCHANGED <<cbVars, stVars, mutVars, fnVars>>
    \/ calls < MaxQueryCalls /\ PredicateBuilder_done_call /\ UNCHANGED <<cbVars, stVars, mutVars, fnVars>>
    \/ \E v \in scopes, e \in ExprInputs, c \in {"and", "or"} :
            calls < MaxQueryCalls /\ NodeScope_where(v, e, c) /\ UNCHANGED <<cbVars, stVars, mutVars, fnVars>>
    \/ \E v \in scopes, k \in KeysInputs :
            calls < MaxQueryCalls /\ NodeScope_select(v, k) /\ UNCHANGED <<cbVars, stVars, mutVars, fnVars>>

(* A longer session, of at most MaxPredicateCalls calls, that declares one
   variable and attaches predicates and projections to it. *)
NextPredicate ==
    \/ \E t \in {Target("dict", "a", None), Target("dict", "a", "User")} :
            calls < MaxPredicateCalls /\ QueryBuilder_match(t) /\ UNCHANGED <<cbVars, stVars, mutVars, fnVars>>
    \/ calls < MaxPredicateCalls /\ QueryBuilder_nodes("User") /\ UNCHANGED <<cbVars, stVars, mutVars, fnVars>>
    \/ calls < MaxPredicateCalls /\ QueryBuilder_where_var("a") /\ UNCHANGED <<cbVars, stVars, mutVars, fnVars>>
    \/ \E s \in {<<EqName>>, <<EqBogus>>} :
            calls < MaxPredicateCalls /\ QueryBuilder_where_var_build("a", s)
                /\ UNCHANGED <<cbVars, stVars, mutVars, fnVars>>
    \/ \E c \in {EqName, EqBogus} :
            calls < MaxPredicateCalls /\ PredicateBuilder_call(c) /\ UNCHANGED <<cbVars, stVars, mutVars, fnVars>>
    \/ calls < MaxPredicateCalls /\ PredicateBuilder_done_call /\ UNCHANGED <<cbVars, stVars, mutVars, fnVars>>
    \/ \E v \in scopes, e \in {ExprEqName, ExprEqBogus}, c \in {"and", "or"} :
            calls < MaxPredicateCalls /\ NodeScope_where(v, e, c) /\ UNCHANGED <<cbVars, stVars, mutVars, fnVars>>
    \/ \E v \in scopes, k \in {<<"name">>, <<"bogus">>} :
            calls < MaxPredicateCalls /\ NodeScope_select(v, k) /\ UNCHANGED <<cbVars, stVars, mutVars, fnVars>>
    \/ \E f \in {<<Field("prop", "a", "name", None)>>, <<Field("prop", "a", "bogus", None)>>} :
            calls < MaxPredicateCalls /\ QueryBuilder_select(f) /\ UNCHANGED <<cbVars, stVars, mutVars, fnVars>>

InitSpecQuery == InitDb /\ IdleCreate /\ IdleStream /\ InitQuery /\ IdleMutate /\ IdleFn
SpecQuery == InitSpecQuery /\ [][NextQuery]_vars

InitSpecPredicate == InitDb /\ IdleCreate /\ IdleStream /\ InitQuery /\ IdleMutate /\ IdleFn
SpecPredicate == InitSpecPredicate /\ [][NextPredicate]_vars

(* The inputs of the chunked calls: n records, of which record `bad` (0: none)
   carries a property the schema does not allow. *)
OpRecords(n) == [k \in 1..n |-> DeleteNodeOp(k, FALSE)]
NodeRecords(n, bad) == [k \in 1..n |-> Props({IF k = bad THEN "bogus" ELSE "name"}, k)]
EdgeRecords(n, bad) ==
    [k \in 1..n |-> [src |-> k, dst |-> k + 1, ty |-> "KNOWS",
                     props |-> Props({IF k = bad THEN "bogus" ELSE "since"}, k)]]
ChunkSizeInputs ==
    {PyInt(c) : c \in -1..MaxChunkSize}
      \cup {PyValue("float", "0", 2), PyValue("str", "0", 2), PyValue("bool", "0", 1)}

NextBulk ==
    \/ \E n \in 0..MaxRecords, c \in ChunkSizeInputs, f \in 0..MaxFailAt :
            /\ calls < MaxBulkCalls /\ bulk.path = None
            /\ Database_mutate_batched(OpRecords(n), c, f, "IO")
            /\ UNCHANGED <<cbVars, stVars, qbVars, sdb_schema, txVars, fnVars>>
    \/ \E l \in {"User", "Post", ""}, n \in 0..MaxRecords, bad \in {0, 3},
          c \in ChunkSizeInputs, f \in 0..MaxFailAt :
            /\ calls < MaxBulkCalls /\ bulk.path = None
            /\ SombraDB_bulk_load_nodes(l, NodeRecords(n, bad), c, f, "IO")
            /\ UNCHANGED <<cbVars, stVars, qbVars, sdb_schema, txVars, fnVars>>
    \/ \E n \in 0..MaxRecords, bad \in {0, 3}, c \in ChunkSizeInputs, f \in 0..MaxFailAt,
          r \in {0, 2} :
            /\ calls < MaxBulkCalls /\ bulk.path = None
            /\ SombraDB_bulk_load_edges(EdgeRecords(n, bad), c, f, "CONFLICT", r)
            /\ UNCHANGED <<cbVars, stVars, qbVars, sdb_schema, txVars, fnVars>>
    \/ \E o \in {"ok", "CONFLICT"} :
            /\ calls < MaxBulkCalls
            /\ Database_create_node("User", NoProps, o)
            /\ UNCHANGED <<cbVars, stVars, qbVars, mutVars, fnVars>>
    \/ \E o \in {"ok", "IO"} :
            /\ calls < MaxBulkCalls
            /\ Database_close(o)
            /\ UNCHANGED <<cbVars, stVars, qbVars, mutVars, fnVars>>

InitSpecBulk == InitDb /\ IdleCreate /\ IdleStream /\ IdleQuery /\ InitMutate /\ IdleFn
SpecBulk == InitSpecBulk /\ [][NextBulk]_vars

(* The inputs of the batch calls: an int id and one int() cannot convert. *)
IdInputs == {PyInt(1), PyValue("str", "0", 0)}

NextTxn ==
    \/ /\ calls < MaxTxnCalls
       /\ Database_transaction_begin
       /\ UNCHANGED <<cbVars, stVars, qbVars, sdb_schema, bulk, fnVars>>
    \/ \E op \in {DeleteEdgeOp(9)} :
            /\ calls < MaxTxnCalls
            /\ MutationBatch_queue(op)
            /\ UNCHANGED <<cbVars, stVars, qbVars, sdb_schema, bulk, fnVars>>
    \/ \E l \in {"User"}, p \in {Props({"name"}, 1)} :
            /\ calls < MaxTxnCalls
            /\ MutationBatch_create_node(l, p)
            /\ UNCHANGED <<cbVars, stVars, qbVars, sdb_schema, bulk, fnVars>>
    \/ \E id \in IdInputs :
            /\ calls < MaxTxnCalls
            /\ MutationBatch_update_node(id, Props({"name"}, 2), {})
            /\ UNCHANGED <<cbVars, stVars, qbVars, sdb_schema, bulk, fnVars>>
    \/ \E id \in IdInputs :
            /\ calls < MaxTxnCalls
            /\ MutationBatch_delete_node(id, FALSE)
            /\ UNCHANGED <<cbVars, stVars, qbVars, sdb_schema, bulk, fnVars>>
    \/ \E src \in IdInputs :
            /\ calls < MaxTxnCalls
            /\ MutationBatch_create_edge(src, PyInt(2), "KNOWS", NoProps)
            /\ UNCHANGED <<cbVars, stVars, qbVars, sdb_schema, bulk, fnVars>>
    \/ \E id \in IdInputs :
            /\ calls < MaxTxnCalls
            /\ MutationBatch_update_edge(id, NoProps, {"since"})
            /\ UNCHANGED <<cbVars, stVars, qbVars, sdb_schema, bulk, fnVars>>
    \/ \E id \in IdInputs :
            /\ calls < MaxTxnCalls
            /\ MutationBatch_delete_edge(id)
            /\ UNCHANGED <<cbVars, stVars, qbVars, sdb_schema, bulk, fnVars>>
    \/ /\ calls < MaxTxnCalls
       /\ MutationBatch_drain
       /\ UNCHANGED <<cbVars, stVars, qbVars, sdb_schema, bulk, fnVars>>
    \/ /\ calls < MaxTxnCalls
       /\ Database_transaction_fn_raises
       /\ UNCHANGED <<cbVars, stVars, qbVars, sdb_schema, bulk, fnVars>>
    \/ \E a \in BOOLEAN, o \in {"ok", "IO"} :
            /\ calls < MaxTxnCalls
            /\ Database_transaction_return(a, o)
            /\ UNCHANGED <<cbVars, stVars, qbVars, sdb_schema, bulk, fnVars>>
    \/ \E o \in {"ok", "IO"} :
            /\ calls < MaxTxnCalls
            /\ Database_close(o)
            /\ UNCHANGED <<cbVars, stVars, qbVars, mutVars, fnVars>>

InitSpecTxn == InitDb /\ IdleCreate /\ IdleStream /\ IdleQuery /\ IdleMutate /\ IdleFn
SpecTxn == InitSpecTxn /\ [][NextTxn]_vars

(* The inputs of the creation calls: props the schema allows and props it
   does not ("bogus" is in no allowed set). *)
NodePropsInputs == {Props({"name"}, 1), Props({"bogus"}, 1)}
EdgePropsInputs == {Props({"since"}, 1), Props({"bogus"}, 1)}

NextCreation ==
    \/ \E p \in NodePropsInputs, o \in {"ok", "IO"} :
            /\ calls < MaxCreationCalls
            /\ SombraDB_add_node("User", p, o)
            /\ UNCHANGED <<cbVars, stVars, qbVars, mutVars, fnVars>>
    \/ \E p \in EdgePropsInputs, r \in {<<"match", "match">>, <<"match", "other">>} :
            /\ calls < MaxCreationCalls
            /\ SombraDB_add_edge(1, 2, "KNOWS", p, r, "ok")
            /\ UNCHANGED <<cbVars, stVars, qbVars, mutVars, fnVars>>
    \/ \E bad \in {0, 3} :
            /\ calls < MaxCreationCalls
            /\ SombraDB_bulk_load_nodes("User", NodeRecords(3, bad), PyInt(2), 0, "IO")
            /\ UNCHANGED <<cbVars, stVars, qbVars, sdb_schema, txVars, fnVars>>
    \/ \E bad \in {0, 3} :
            /\ calls < MaxCreationCalls
            /\ SombraDB_bulk_load_edges(EdgeRecords(3, bad), PyInt(2), 0, "IO", 0)
            /\ UNCHANGED <<cbVars, stVars, qbVars, sdb_schema, txVars, fnVars>>
    \/ \E p \in NodePropsInputs :
            /\ calls < MaxCreationCalls
            /\ Database_create_node("User", p, "ok")
            /\ UNCHANGED <<cbVars, stVars, qbVars, mutVars, fnVars>>
    \/ \E p \in EdgePropsInputs, s \in IdInputs :
            /\ calls < MaxCreationCalls
            /\ Database_create_edge(s, PyInt(2), "KNOWS", p, "ok")
            /\ UNCHANGED <<cbVars, stVars, qbVars, mutVars, fnVars>>
    \/ /\ calls < MaxCreationCalls
       /\ Database_transaction_begin
       /\ UNCHANGED <<cbVars, stVars, qbVars, sdb_schema, bulk, fnVars>>
    \/ \E p \in NodePropsInputs :
            /\ calls < MaxCreationCalls
            /\ MutationBatch_create_node("User", p)
            /\ UNCHANGED <<cbVars, stVars, qbVars, sdb_schema, bulk, fnVars>>
    \/ \E p \in EdgePropsInputs :
            /\ calls < MaxCreationCalls
            /\ MutationBatch_create_edge(PyInt(1), PyInt(2), "KNOWS", p)
            /\ UNCHANGED <<cbVars, stVars, qbVars, sdb_schema, bulk, fnVars>>
    \/ /\ calls < MaxCreationCalls
       /\ Database_transaction_return(FALSE, "ok")
       /\ UNCHANGED <<cbVars, stVars, qbVars, sdb_schema, bulk, fnVars>>
    \/ \E p \in NodePropsInputs :
            /\ calls < MaxCreationCalls
            /\ CreateBuilder_node("User", p, None)
            /\ UNCHANGED <<stVars, qbVars, mutVars, fnVars>>
    \/ \E p \in EdgePropsInputs :
            /\ calls < MaxCreationCalls
            /\ CreateBuilder_edge(Ref("int", "", 1), "KNOWS", Ref("int", "", 2), p)
            /\ UNCHANGED <<stVars, qbVars, mutVars, fnVars>>
    \/ /\ calls < MaxCreationCalls
       /\ CreateBuilder_execute("ok")
       /\ UNCHANGED <<stVars, qbVars, mutVars, fnVars>>

InitSpecCreation == InitDb /\ InitCreate /\ IdleStream /\ IdleQuery /\ InitMutate /\ IdleFn
SpecCreation == InitSpecCreation /\ [][NextCreation]_vars

(* The handles a caller holds, those of this builder and those of another,
   and the endpoints it passes to edge(). *)
OwnHandleInputs == {r \in RefInputs : r.ty = "handle"}
EndpointInputs ==
    OwnHandleInputs \cup OtherHandleInputs \cup {Ref("str", "$a", 0), Ref("int", "", 7)}

NextHandles ==
    \/ \E a \in {None, "$a"} :
            /\ calls < MaxHandleCalls
            /\ CreateBuilder_node("User", NoProps, a)
            /\ UNCHANGED <<stVars, qbVars, mutVars, fnVars>>
    \/ \E s \in EndpointInputs :
          \E d \in {s} \cup OwnHandleInputs :
            /\ calls < MaxHandleCalls
            /\ CreateBuilder_edge(s, "KNOWS", d, NoProps)
            /\ UNCHANGED <<stVars, qbVars, mutVars, fnVars>>
    \/ \E o \in {"ok", "IO"} :
            /\ calls < MaxHandleCalls
            /\ CreateBuilder_execute(o)
            /\ UNCHANGED <<stVars, qbVars, mutVars, fnVars>>

InitSpecHandles == InitDb /\ InitCreate /\ IdleStream /\ IdleQuery /\ IdleMutate /\ IdleFn
SpecHandles == InitSpecHandles /\ [][NextHandles]_vars

(* Direction names handed to direction(): the three valid ones and another. *)
DirectionInputs == {"out", "in", "both", "sideways"}

(* A session of at most MaxTraverseCalls calls that declares variables and
   walks edges. *)
NextTraverse ==
    \/ \E t \in {Target("dict", "a", None), Target("str", None, "User")} :
            calls < MaxTraverseCalls /\ QueryBuilder_match(t) /\ UNCHANGED <<cbVars, stVars, mutVars, fnVars>>
    \/ \E e \in {None, "KNOWS"}, t \in WhereTargetInputs :
            calls < MaxTraverseCalls /\ QueryBuilder_where(e, t) /\ UNCHANGED <<cbVars, stVars, mutVars, fnVars>>
    \/ \E d \in DirectionInputs :
            calls < MaxTraverseCalls /\ QueryBuilder_direction(d)
                /\ UNCHANGED <<cbVars, stVars, mutVars, fnVars>>
    \/ calls < MaxTraverseCalls /\ QueryBuilder_bidirectional /\ UNCHANGED <<cbVars, stVars, mutVars, fnVars>>

InitSpecTraverse == InitDb /\ IdleCreate /\ IdleStream /\ IdleQuery /\ IdleMutate /\ IdleFn
SpecTraverse == InitSpecTraverse /\ [][NextTraverse]_vars

(* Expressions and callback bodies whose roots are comparisons, and, or, not. *)
AttachExprInputs ==
    {ExprEqName,
     Expr("and", None, <<ExprEqName, ExprEqBogus>>, <<>>, <<>>),
     Expr("or", None, <<ExprEqName, ExprEqName>>, <<>>, <<>>),
     Expr("not", None, <<ExprEqName>>, <<>>, <<>>)}
AttachScriptInputs ==
    {<<EqName>>, <<EqName, EqBogus>>, <<GroupCmd("or", <<EqName, EqBogus>>)>>,
     <<GroupCmd("and", <<EqName, EqName>>)>>}

(* A session of at most MaxAttachCalls calls that declares one labelled
   variable (n0) and attaches predicates to the query through its scope and
   through predicate builders. *)
NextAttach ==
    \/ calls < MaxAttachCalls /\ QueryBuilder_nodes("User") /\ UNCHANGED <<cbVars, stVars, mutVars, fnVars>>
    \/ \E v \in scopes, e \in AttachExprInputs, c \in {"and", "or"} :
            calls < MaxAttachCalls /\ NodeScope_where(v, e, c) /\ UNCHANGED <<cbVars, stVars, mutVars, fnVars>>
    \/ \E s \in AttachScriptInputs :
            calls < MaxAttachCalls /\ QueryBuilder_where_var_build("n0", s)
                /\ UNCHANGED <<cbVars, stVars, mutVars, fnVars>>
    \/ calls < MaxAttachCalls /\ QueryBuilder_where_var("n0") /\ UNCHANGED <<cbVars, stVars, mutVars, fnVars>>
    \/ \E c \in {EqName, GroupCmd("and", <<EqName, EqName>>)} :
            calls < MaxAttachCalls /\ PredicateBuilder_call(c) /\ UNCHANGED <<cbVars, stVars, mutVars, fnVars>>
    \/ calls < MaxAttachCalls /\ PredicateBuilder_done_call /\ UNCHANGED <<cbVars, stVars, mutVars, fnVars>>

InitSpecAttach == InitDb /\ IdleCreate /\ IdleStream /\ InitQuery /\ IdleMutate /\ IdleFn
SpecAttach == InitSpecAttach /\ [][NextAttach]_vars

(* Bounds, inclusive arguments and in-lists, well formed and not. *)
LiteralInputs == {PyInt(1), PyNone, PyValue("float", "nan", 0)}
InclusiveInputs ==
    {PySeqNone,
     PySeq("list", <<PyBool(TRUE), PyBool(FALSE)>>),
     PySeq("tuple", <<PyBool(TRUE)>>),
     PySeq("list", <<PyInt(1), PyInt(0)>>),
     PySeq("str", <<PyValue("str", "0", 0), PyValue("str", "0", 1)>>),
     PySeq("set", <<PyBool(TRUE), PyBool(FALSE)>>)}
ValuesInputs ==
    {PySeq("list", <<PyInt(1), PyInt(2)>>),
     PySeq("list", <<>>),
     PySeq("list", <<PyInt(1), PyValue("str", "0", 0)>>),
     PySeq("list", <<PyBool(TRUE), PyInt(1)>>),
     PySeq("tuple", <<PyNone, PyInt(1)>>),
     PySeq("list", <<PyNone>>),
     PySeq("str", <<PyValue("str", "0", 0), PyValue("str", "0", 1)>>),
     PySeq("list", <<PyInt(1), PyValue("list", "0", 0)>>),
     PySeq("list", <<PyValue("float", "nan", 0)>>)}

(* What the free helpers return for those inputs (the calls that raise
   return nothing to pass on). *)
HelperExprs ==
    LET made == {between("name", l, h, i) :
                    l \in LiteralInputs, h \in {PyInt(2), PyNone}, i \in InclusiveInputs}
                \cup {in_list("name", v) : v \in ValuesInputs}
    IN {m.expr : m \in {x \in made : x.err = NoError}}
ShapeExprInputs ==
    HelperExprs
    \cup {Expr(op, "name", <<>>, <<l>>, <<>>) : op \in {"lt", "eq"}, l \in LiteralInputs}
    \cup {Expr("not", None, <<Expr("ge", "name", <<>>, <<l>>, <<>>)>>, <<>>, <<>>) :
            l \in LiteralInputs}
    \cup {Expr("or", None, <<ExprEqName, e>>, <<>>, <<>>) :
            e \in {between("name", PyInt(1), h, PySeqNone).expr : h \in {PyInt(2), PyNone}}}
ShapeCmdInputs ==
    {BetweenCmd("name", l, h, i) :
        l \in LiteralInputs, h \in {PyInt(2), PyNone}, i \in InclusiveInputs}
    \cup {InCmd("name", v) : v \in ValuesInputs}
    \cup {CmpCmd(op, "name", l) : op \in {"gt", "ne"}, l \in LiteralInputs}
ShapeScriptInputs ==
    {<<c>> : c \in ShapeCmdInputs}
    \cup {<<GroupCmd(m, <<>>)>> : m \in {"and", "or", "not"}}
    \cup {<<GroupCmd(m, <<c>>)>> :
            m \in {"or", "not"},
            c \in {BetweenCmd("name", PyInt(1), h, PySeqNone) : h \in {PyInt(2), PyNone}}}

(* A session of at most MaxExprCalls calls that declares one labelled
   variable (n0) and attaches comparisons of every operator, between and in
   included, through the scope (free helpers) and through where_var. *)
NextExpr ==
    \/ calls < MaxExprCalls /\ QueryBuilder_nodes("User") /\ UNCHANGED <<cbVars, stVars, mutVars, fnVars>>
    \/ \E v \in scopes, e \in ShapeExprInputs, c \in {"and", "or"} :
            calls < MaxExprCalls /\ NodeScope_where(v, e, c) /\ UNCHANGED <<cbVars, stVars, mutVars, fnVars>>
    \/ \E s \in ShapeScriptInputs :
            calls < MaxExprCalls /\ QueryBuilder_where_var_build("n0", s)
                /\ UNCHANGED <<cbVars, stVars, mutVars, fnVars>>

InitSpecExpr == InitDb /\ IdleCreate /\ IdleStream /\ InitQuery /\ IdleMutate /\ IdleFn
SpecExpr == InitSpecExpr /\ [][NextExpr]_vars

(* Field lists for select(): whole entities, properties, an unknown variable. *)
ProjectFieldInputs ==
    {<<Field("str", "n0", None, None)>>,
     <<Field("prop", "n0", "name", "x")>>,
     <<Field("var", "n1", None, "y"), Field("str", "n0", None, None)>>,
     <<Field("str", "zz", None, None)>>}

(* A session of at most MaxProjectCalls calls that declares variables by
   nodes() and by traversal, selects through the builder and through the
   scope, and submits the query by execute, explain and stream. *)
NextProject ==
    \/ calls < MaxProjectCalls /\ QueryBuilder_nodes("User") /\ UNCHANGED <<cbVars, stVars, mutVars, fnVars>>
    \/ \E t \in {Target("str", None, "User"), Target("dict", "a", None)} :
            calls < MaxProjectCalls /\ QueryBuilder_where("KNOWS", t)
                /\ UNCHANGED <<cbVars, stVars, mutVars, fnVars>>
    \/ \E f \in ProjectFieldInputs :
            calls < MaxProjectCalls /\ QueryBuilder_select(f) /\ UNCHANGED <<cbVars, stVars, mutVars, fnVars>>
    \/ \E v \in scopes, k \in KeysInputs :
            calls < MaxProjectCalls /\ NodeScope_select(v, k) /\ UNCHANGED <<cbVars, stVars, mutVars, fnVars>>
    \/ \E o \in {"ok", "IO"} :
            calls < MaxProjectCalls /\ QueryBuilder_execute(o) /\ UNCHANGED <<cbVars, stVars, mutVars, fnVars>>
    \/ \E r \in BOOLEAN :
            calls < MaxProjectCalls /\ QueryBuilder_explain(r, "ok")
                /\ UNCHANGED <<cbVars, stVars, mutVars, fnVars>>
    \/ calls < MaxProjectCalls /\ QueryBuilder_stream(QueryBuilder_build(qb), "ok", 0)
            /\ UNCHANGED <<cbVars, qbVars, mutVars, fnVars>>

InitSpecProject == InitDb /\ IdleCreate /\ IdleStream /\ InitQuery /\ IdleMutate /\ IdleFn
SpecProject == InitSpecProject /\ [][NextProject]_vars

(* What the Engine answers: success, two known wire codes, an unknown one. *)
FailureOutcomes == {"ok", "IO", "CONFLICT", "BOGUS"}

(* A session of at most MaxFailureCalls calls in which every operation that
   reaches the Engine may fail: execute, explain, stream opening, stream
   pull, a mutation, a create script. *)
NextFailures ==
    \/ calls < MaxFailureCalls /\ QueryBuilder_nodes("User") /\ UNCHANGED <<cbVars, stVars, mutVars, fnVars>>
    \/ \E o \in FailureOutcomes :
            calls < MaxFailureCalls /\ QueryBuilder_execute(o) /\ UNCHANGED <<cbVars, stVars, mutVars, fnVars>>
    \/ \E o \in FailureOutcomes :
            calls < MaxFailureCalls /\ QueryBuilder_explain(FALSE, o)
                /\ UNCHANGED <<cbVars, stVars, mutVars, fnVars>>
    \/ \E o \in FailureOutcomes :
            calls < MaxFailureCalls /\ QueryBuilder_stream(QueryBuilder_build(qb), o, 1)
                /\ UNCHANGED <<cbVars, qbVars, mutVars, fnVars>>
    \/ \E o \in FailureOutcomes, c \in {"ok", "IO"} :
            calls < MaxFailureCalls /\ QueryStream_anext(o, c) /\ UNCHANGED <<cbVars, qbVars, mutVars, fnVars>>
    \/ \E o \in FailureOutcomes :
            calls < MaxFailureCalls /\ Database_create_node("User", NoProps, o)
                /\ UNCHANGED <<cbVars, stVars, qbVars, mutVars, fnVars>>
    \/ calls < MaxFailureCalls /\ CreateBuilder_node("User", NoProps, None)
            /\ UNCHANGED <<stVars, qbVars, mutVars, fnVars>>
    \/ \E o \in FailureOutcomes :
            calls < MaxFailureCalls /\ CreateBuilder_execute(o) /\ UNCHANGED <<stVars, qbVars, mutVars, fnVars>>
    \/ calls < MaxFailureCalls /\ Database_close("ok") /\ UNCHANGED <<cbVars, stVars, qbVars, mutVars, fnVars>>

InitSpecFailures == InitDb /\ InitCreate /\ IdleStream /\ IdleQuery /\ IdleMutate /\ IdleFn
SpecFailures == InitSpecFailures /\ [][NextFailures]_vars

(* Messages: a bracketed code (of the enumeration, outside it, or not a code
   at all) or none, whitespace or none, and a remainder of at most MaxRestLen
   characters. *)
RECURSIVE SeqsUpTo(_, _)
SeqsUpTo(set, n) ==
    IF n = 0 THEN {<<>>}
    ELSE SeqsUpTo(set, n - 1)
         \cup {Append(s, c) : s \in {t \in SeqsUpTo(set, n - 1) : Len(t) = n - 1}, c \in set}
PrefixInputs ==
    {<<"[">> \o CodeChars[c] \o <<"]">> : c \in DOMAIN CodeChars}
    \cup {<<>>, <<"[", "]">>, <<"[", "I", "O">>, <<" ", "[", "I", "O", "]">>,
          <<"[", "i", "o", "]">>, <<"[", "E", "1", "]">>}
MessageInputs ==
    {p \o w \o r : p \in PrefixInputs,
                   w \in {<<>>, <<" ">>, <<" ", " ">>, <<"\n">>},
                   r \in SeqsUpTo({"x", " ", "["}, MaxRestLen)}

(* Errors of the native layer and errors that are typed already *)
ExcInputs ==
    {Exc("RuntimeError", "", m, 0) : m \in MessageInputs}
    \cup {Exc(cls, ClassCode(cls), m, 0) :
            cls \in {"SombraError", "IoError", "ConflictError"}, m \in MessageInputs}

InitWrap == fn_arg \in {<<e>> : e \in ExcInputs} /\ fn_out = <<>>

NextWrap ==
    \/ wrap_native_error_call
    \/ wrap_native_error_again

InitSpecWrap == InitDb /\ IdleCreate /\ IdleStream /\ IdleQuery /\ IdleMutate /\ InitWrap
SpecWrap == InitSpecWrap /\ [][NextWrap]_vars

(* A session of at most MaxClosedCalls calls on a database that is closed at
   some point: the operations that reach the Engine, on the database, on a
   QueryBuilder and on a CreateBuilder made while it was open. *)
NextClosed ==
    \/ \E o \in {"ok", "IO"} :
            calls < MaxClosedCalls /\ Database_close(o)
                /\ UNCHANGED <<cbVars, stVars, qbVars, mutVars, fnVars>>
    \/ calls < MaxClosedCalls /\ QueryBuilder_nodes("User") /\ UNCHANGED <<cbVars, stVars, mutVars, fnVars>>
    \/ \E o \in {"ok", "IO"} :
            calls < MaxClosedCalls /\ QueryBuilder_execute(o) /\ UNCHANGED <<cbVars, stVars, mutVars, fnVars>>
    \/ calls < MaxClosedCalls /\ QueryBuilder_explain(FALSE, "ok")
            /\ UNCHANGED <<cbVars, stVars, mutVars, fnVars>>
    \/ calls < MaxClosedCalls /\ QueryBuilder_stream(QueryBuilder_build(qb), "ok", 1)
            /\ UNCHANGED <<cbVars, qbVars, mutVars, fnVars>>
    \/ calls < MaxClosedCalls /\ CreateBuilder_node("User", NoProps, None)
            /\ UNCHANGED <<stVars, qbVars, mutVars, fnVars>>
    \/ \E o \in {"ok", "IO"} :
            calls < MaxClosedCalls /\ CreateBuilder_execute(o) /\ UNCHANGED <<stVars, qbVars, mutVars, fnVars>>
    \/ calls < MaxClosedCalls /\ Database_create_node("User", NoProps, "ok")
            /\ UNCHANGED <<cbVars, stVars, qbVars, mutVars, fnVars>>
    \/ calls < MaxClosedCalls /\ Database_mutate_batched(OpRecords(2), PyInt(1), 0, "IO")
            /\ UNCHANGED <<cbVars, stVars, qbVars, sdb_schema, txVars, fnVars>>
    \/ calls < MaxClosedCalls /\ Database_transaction_begin
            /\ UNCHANGED <<cbVars, stVars, qbVars, sdb_schema, bulk, fnVars>>

InitSpecClosed == InitDb /\ InitCreate /\ IdleStream /\ IdleQuery /\ IdleMutate /\ IdleFn
SpecClosed == InitSpecClosed /\ [][NextClosed]_vars

(* Calls of the free helpers and of the predicate builder's methods: valid
   ones, null operands, a literal that is not finite, a mixed and a nested
   list, an empty property name, an empty combinator. *)
FailFastCalls ==
    {CmpCmd("lt", "name", PyInt(1)),
     CmpCmd("lt", "name", PyNone),
     CmpCmd("eq", "name", PyNone),
     CmpCmd("eq", "name", PyValue("float", "nan", 0)),
     CmpCmd("eq", "", PyInt(1)),
     BetweenCmd("name", PyInt(1), PyInt(2), PySeqNone),
     BetweenCmd("name", PyInt(1), PyNone, PySeqNone),
     InCmd("name", PySeq("list", <<PyInt(1), PyInt(2)>>)),
     InCmd("name", PySeq("list", <<PyInt(1), PyValue("str", "0", 0)>>)),
     InCmd("name", PySeq("list", <<PyInt(1), PyValue("list", "0", 0)>>)),
     GroupCmd("and", <<>>),
     GroupCmd("or", <<CmpCmd("eq", "name", PyInt(1)), CmpCmd("gt", "name", PyNone)>>)}

(* A session of at most MaxFailFastCalls builder calls on one labelled
   variable (n0): the caller makes expressions with the free helpers and
   hands what they return to where(), makes the same calls on a predicate
   builder, and submits the query. *)
NextFailFast ==
    \/ calls < MaxFailFastCalls /\ QueryBuilder_nodes("User")
            /\ UNCHANGED <<cbVars, stVars, mutVars, fnVars>>
    \/ \E c \in FailFastCalls : helper_call(c) /\ UNCHANGED <<cbVars, stVars, mutVars>>
    \/ \E v \in scopes, k \in {"and", "or"} :
            calls < MaxFailFastCalls /\ NodeScope_where_helper(v, k)
                /\ UNCHANGED <<cbVars, stVars, mutVars>>
    \/ \E v \in {"n0", "zz"}, c \in FailFastCalls :
            calls < MaxFailFastCalls /\ QueryBuilder_where_var_build(v, <<c>>)
                /\ UNCHANGED <<cbVars, stVars, mutVars, fnVars>>
    \/ \E o \in {"ok", "IO"} :
            calls < MaxFailFastCalls /\ QueryBuilder_execute(o)
                /\ UNCHANGED <<cbVars, stVars, mutVars, fnVars>>
    \/ calls < MaxFailFastCalls /\ QueryBuilder_explain(FALSE, "ok")
            /\ UNCHANGED <<cbVars, stVars, mutVars, fnVars>>
    \/ calls < MaxFailFastCalls /\ QueryBuilder_stream(QueryBuilder_build(qb), "ok", 0)
            /\ UNCHANGED <<cbVars, qbVars, mutVars, fnVars>>

InitSpecFailFast == InitDb /\ IdleCreate /\ IdleStream /\ InitQuery /\ IdleMutate /\ IdleFn
SpecFailFast == InitSpecFailFast /\ [][NextFailFast]_vars

(* Calls made on a predicate builder: a valid comparison, an empty property
   name, a null operand, an empty group and a group of one comparison. *)
SingleUseCmds ==
    {EqName,
     CmpCmd("eq", "", PyInt(1)),
     CmpCmd("lt", "name", PyNone),
     GroupCmd("and", <<>>),
     GroupCmd("or", <<EqName>>)}

(* A session of at most MaxSingleUseCalls calls on one labelled variable
   (n0): the caller takes a predicate builder from where_var, calls it before
   and after done(), and keeps the nested builders its groups were given to
   call them after the group has closed. *)
NextSingleUse ==
    \/ calls < MaxSingleUseCalls /\ qb.matches = <<>> /\ QueryBuilder_nodes("User")
            /\ UNCHANGED <<cbVars, stVars, mutVars, fnVars>>
    \/ calls < MaxSingleUseCalls /\ pb = <<>> /\ QueryBuilder_where_var("n0")
            /\ UNCHANGED <<cbVars, stVars, mutVars, fnVars>>
    \/ \E c \in SingleUseCmds :
            calls < MaxSingleUseCalls /\ PredicateBuilder_call(c)
                /\ UNCHANGED <<cbVars, stVars, mutVars, fnVars>>
    \/ calls < MaxSingleUseCalls /\ PredicateBuilder_done_call
            /\ UNCHANGED <<cbVars, stVars, mutVars, fnVars>>
    \/ \E m \in {"or", "not"}, b \in {<<>>, <<EqName>>, <<EqName, EqName>>} :
            calls < MaxSingleUseCalls /\ PredicateBuilder_group_kept(m, b)
                /\ UNCHANGED <<cbVars, stVars, mutVars, fnVars>>
    \/ \E c \in SingleUseCmds :
            calls < MaxSingleUseCalls /\ PredicateBuilder_nested_call(c)
                /\ UNCHANGED <<cbVars, stVars, mutVars, fnVars>>
    \/ calls < MaxSingleUseCalls /\ PredicateBuilder_nested_done
            /\ UNCHANGED <<cbVars, stVars, mutVars, fnVars>>

InitSpecSingleUse == InitDb /\ IdleCreate /\ IdleStream /\ InitQuery /\ IdleMutate /\ IdleFn
SpecSingleUse == InitSpecSingleUse /\ [][NextSingleUse]_vars

(* Values handed to request_id(): None, an int, every string of at most
   MaxIdLen characters over a letter and the space, and one with other
   whitespace on both sides. *)
RequestIdInputs ==
    {IdValue("NoneType", <<>>), IdValue("int", <<>>), IdValue("str", <<"\n", "a", "\t">>)}
    \cup {IdValue("str", s) : s \in SeqsUpTo({"a", " "}, MaxIdLen)}

(* A session of at most MaxRequestIdCalls calls that declares a variable,
   sets and clears the request id, and submits the query by execute, explain
   and stream. *)
NextRequestId ==
    \/ calls < MaxRequestIdCalls /\ qb.matches = <<>> /\ QueryBuilder_nodes("User")
            /\ UNCHANGED <<cbVars, stVars, mutVars, fnVars>>
    \/ \E v \in RequestIdInputs :
            calls < MaxRequestIdCalls /\ QueryBuilder_request_id(v)
                /\ UNCHANGED <<cbVars, stVars, mutVars, fnVars>>
    \/ \E o \in {"ok", "IO"} :
            calls < MaxRequestIdCalls /\ QueryBuilder_execute(o)
                /\ UNCHANGED <<cbVars, stVars, mutVars, fnVars>>
    \/ \E r \in BOOLEAN :
            calls < MaxRequestIdCalls /\ QueryBuilder_explain(r, "ok")
                /\ UNCHANGED <<cbVars, stVars, mutVars, fnVars>>
    \/ calls < MaxRequestIdCalls /\ QueryBuilder_stream(QueryBuilder_build(qb), "ok", 0)
            /\ UNCHANGED <<cbVars, qbVars, mutVars, fnVars>>

InitSpecRequestId == InitDb /\ IdleCreate /\ IdleStream /\ InitQuery /\ IdleMutate /\ IdleFn
SpecRequestId == InitSpecRequestId /\ [][NextRequestId]_vars

(* What the Engine answers to the chunks of one mutate_batched call: for each
   chunk one of four summaries (nothing done; a node created and one
   updated; two nodes and an edge created, an edge updated and a node
   deleted; an edge created, two nodes and an edge deleted). *)
PartInputs ==
    {empty_mutation_summary,
     MutationSummary(<<1>>, <<>>, 1, 0, 0, 0),
     MutationSummary(<<2, 3>>, <<7>>, 0, 1, 1, 0),
     MutationSummary(<<>>, <<8>>, 0, 0, 2, 1)}

(* One mutate_batched call of at most MaxSummaryOps operations, on a database
   that is open or was closed before. *)
NextSummary ==
    \/ \E n \in 0..MaxSummaryOps, c \in {PyInt(0), PyInt(1), PyInt(2)},
          p \in [1..MaxSummaryOps -> PartInputs] :
            /\ bulk.path = None
            /\ Database_mutate_batched_summary(OpRecords(n), c, p)
            /\ UNCHANGED <<cbVars, stVars, qbVars, sdb_schema, txVars>>
    \/ /\ bulk.path = None
       /\ Database_close("ok")
       /\ UNCHANGED <<cbVars, stVars, qbVars, mutVars, fnVars>>

InitSpecSummary == InitDb /\ IdleCreate /\ IdleStream /\ IdleQuery /\ IdleMutate /\ IdleFn
SpecSummary == InitSpecSummary /\ [][NextSummary]_vars

(* Datetimes around the three named days: up to MaxMicros microseconds and
   one hour before and after 0:00, without tzinfo and with offsets of -1, 0
   and +1 hour from UTC. *)
DateTimeInputs ==
    {DateTime(b, h, m, TRUE, o) :
        b \in DOMAIN BaseDays, h \in -1..1, m \in -MaxMicros..MaxMicros, o \in -1..1}
    \cup {DateTime(b, h, m, FALSE, 0) :
            b \in DOMAIN BaseDays, h \in -1..1, m \in -MaxMicros..MaxMicros}

InitDatetime ==
    /\ fn_arg \in {<<v>> : v \in DateTimeInputs}
    /\ fn_out = <<>>

NextDatetime ==
    \/ datetime_to_ns_call /\ UNCHANGED <<dbVars, cbVars, stVars, qbVars, mutVars>>
    \/ literal_value_datetime_call /\ UNCHANGED <<dbVars, cbVars, stVars, qbVars, mutVars>>

InitSpecDatetime == InitDb /\ IdleCreate /\ IdleStream /\ IdleQuery /\ IdleMutate /\ InitDatetime
SpecDatetime == InitSpecDatetime /\ [][NextDatetime]_vars

(* A session of at most MaxSchemaOrderCalls calls on one named variable (a),
   declared without a label and with the label User in either order, to
   which a comparison and a projection on the property bogus are attached
   before or after the label, through where_var with a callback, through a
   predicate builder the caller holds, and through select; then the query is
   submitted. *)
NextSchemaOrder ==
    \/ \E t \in {Target("dict", "a", None), Target("dict", "a", "User")} :
            calls < MaxSchemaOrderCalls /\ QueryBuilder_match(t)
                /\ UNCHANGED <<cbVars, stVars, mutVars, fnVars>>
    \/ calls < MaxSchemaOrderCalls /\ QueryBuilder_where_var_build("a", <<EqBogus>>)
            /\ UNCHANGED <<cbVars, stVars, mutVars, fnVars>>
    \/ calls < MaxSchemaOrderCalls /\ QueryBuilder_select(<<Field("prop", "a", "bogus", None)>>)
            /\ UNCHANGED <<cbVars, stVars, mutVars, fnVars>>
    \/ calls < MaxSchemaOrderCalls /\ pb = <<>> /\ QueryBuilder_where_var("a")
            /\ UNCHANGED <<cbVars, stVars, mutVars, fnVars>>
    \/ calls < MaxSchemaOrderCalls /\ PredicateBuilder_call(EqBogus)
            /\ UNCHANGED <<cbVars, stVars, mutVars, fnVars>>
    \/ calls < MaxSchemaOrderCalls /\ PredicateBuilder_done_call
            /\ UNCHANGED <<cbVars, stVars, mutVars, fnVars>>
    \/ calls < MaxSchemaOrderCalls /\ eng = <<>> /\ QueryBuilder_execute("ok")
            /\ UNCHANGED <<cbVars, stVars, mutVars, fnVars>>
    \/ calls < MaxSchemaOrderCalls /\ eng = <<>> /\ QueryBuilder_explain(FALSE, "ok")
            /\ UNCHANGED <<cbVars, stVars, mutVars, fnVars>>

InitSpecSchemaOrder == InitDb /\ IdleCreate /\ IdleStream /\ InitQuery /\ IdleMutate /\ IdleFn
SpecSchemaOrder == InitSpecSchemaOrder /\ [][NextSchemaOrder]_vars

(* The holder of a submitted spec (the Engine, a caller that kept it) changes
   it in place: the alias of its first projection, or the property of the
   root of its predicate. The builder's own dict changes with it when the
   spec refers to that dict. *)
SubmittedSpec_edit(part) ==
    /\ fn_out # <<>> /\ eng # <<>>
    /\ calls' = calls + 1
    /\ ret' = Ret("spec.edit", NoError, 0)
    /\ UNCHANGED <<db_closed, scopes, pb, fnVars>>
    /\ IF part = "projections"
       THEN /\ eng[Len(eng)].arg.projections # <<>>
            /\ eng' = [eng EXCEPT ![Len(eng)].arg.projections[1].alias = "edited"]
            /\ qb' = IF fn_out[1].projections = "builder"
                     THEN [qb EXCEPT !.projections[1].alias = "edited"] ELSE qb
       ELSE /\ eng[Len(eng)].arg.predicate # NoPredicate
            /\ eng' = [eng EXCEPT ![Len(eng)].arg.predicate.prop = "edited"]
            /\ qb' = IF fn_out[1].predicate = "builder"
                     THEN [qb EXCEPT !.predicate.prop = "edited"] ELSE qb

(* A session of at most MaxResubmitCalls calls that builds a query (a
   variable, a predicate, a projection, the distinct flag, a request id),
   submits it by execute, explain and stream, again and again, and changes
   the specs submitted. fn_out holds what the spec submitted last refers to. *)
NextResubmit ==
    \/ calls < MaxResubmitCalls /\ qb.matches = <<>> /\ QueryBuilder_nodes("User")
            /\ UNCHANGED <<cbVars, stVars, mutVars, fnVars>>
    \/ \E v \in scopes :
            calls < MaxResubmitCalls /\ NodeScope_where(v, ExprEqName, "and")
                /\ UNCHANGED <<cbVars, stVars, mutVars, fnVars>>
    \/ calls < MaxResubmitCalls /\ QueryBuilder_select(<<Field("prop", "n0", "name", None)>>)
            /\ UNCHANGED <<cbVars, stVars, mutVars, fnVars>>
    \/ calls < MaxResubmitCalls /\ QueryBuilder_distinct
            /\ UNCHANGED <<cbVars, stVars, mutVars, fnVars>>
    \/ calls < MaxResubmitCalls /\ QueryBuilder_request_id(IdValue("str", <<"a">>))
            /\ UNCHANGED <<cbVars, stVars, mutVars, fnVars>>
    \/ \E o \in {"ok", "IO"} :
            calls < MaxResubmitCalls /\ QueryBuilder_execute(o)
                /\ fn_out' = <<QueryBuilder_build_refs(qb)>>
                /\ UNCHANGED <<cbVars, stVars, mutVars, fn_arg>>
    \/ \E r \in BOOLEAN :
            calls < MaxResubmitCalls /\ QueryBuilder_explain(r, "ok")
                /\ fn_out' = <<QueryBuilder_build_refs(qb)>>
                /\ UNCHANGED <<cbVars, stVars, mutVars, fn_arg>>
    \/ calls < MaxResubmitCalls /\ QueryBuilder_stream(QueryBuilder_build(qb), "ok", 0)
            /\ fn_out' = <<QueryBuilder_build_refs(qb)>>
            /\ UNCHANGED <<cbVars, qbVars, mutVars, fn_arg>>
    \/ \E part \in {"projections", "predicate"} :
            calls < MaxResubmitCalls /\ SubmittedSpec_edit(part)
                /\ UNCHANGED <<cbVars, stVars, mutVars>>

InitSpecResubmit == InitDb /\ IdleCreate /\ IdleStream /\ IdleQuery /\ IdleMutate /\ IdleFn
SpecResubmit == InitSpecResubmit /\ [][NextResubmit]_vars

----------------------------------------------------------------------------
(* Claims about CreateBuilder *)

EngineCallsTo(fn) == {i \in DOMAIN eng : eng[i].fn = fn}
CreateBuilderCall == calls' # calls /\ ret'.call \in {"node", "edge", "execute"}

(* C1: on an open database the Engine's create-script entry point is invoked
   at most once per CreateBuilder: an execute() on an unsealed builder seals
   it whatever the Engine answers, and every node(), edge() or execute() call
   on a sealed builder raises "builder already executed", makes no Engine
   call and leaves the builder as it was. *)
C1_ExecuteAtMostOnce ==
    /\ [](Cardinality(EngineCallsTo("database_create")) <= 1)
    /\ [][(CreateBuilderCall /\ ~db_closed /\ ~cb_sealed /\ ret'.call = "execute")
            => cb_sealed']_vars
    /\ [][(CreateBuilderCall /\ ~db_closed /\ cb_sealed)
            => /\ ret'.err = "builder already executed"
               /\ eng' = eng
               /\ UNCHANGED cbVars]_vars

(* C1 witness: a second execute() was refused after the first one failed
   inside the Engine. *)
C1_Witness ==
    /\ ~db_closed
    /\ cb_sealed
    /\ ret = Ret("execute", "builder already executed", 0)
    /\ \E i \in EngineCallsTo("database_create") : eng[i].out # "ok"

----------------------------------------------------------------------------
(* Claims about the query stream *)

(* C2: once close() has been called on a query stream, every later pull ends
   iteration (StopAsyncIteration) without yielding a row and without an
   Engine call, and every later close() returns without an Engine call. *)
C2_CloseIsTerminal ==
    [][(st_close_called /\ calls' # calls /\ ret'.call \in {"anext", "stream.close"})
        => /\ eng' = eng
           /\ st_pulled' = st_pulled
           /\ ret'.err = (IF ret'.call = "anext" THEN "StopAsyncIteration" ELSE NoError)]_vars

(* C2 witness: a pull after close() while the Engine still held rows. *)
C2_Witness ==
    /\ st_close_called
    /\ st_rows > 0
    /\ ret = Ret("anext", "StopAsyncIteration", 0)

----------------------------------------------------------------------------
(* Claims about the QueryBuilder's match clauses *)

(* A step that re-declares, with target t, a variable whose clause i is there
   already. *)
Redeclares(t, i) ==
    /\ QueryBuilder_match(t)
    /\ t.form = "dict"
    /\ i \in DOMAIN qb.matches
    /\ qb.matches[i].var = t.var

(* C4: in every reachable state no two match clauses carry the same variable;
   no step removes or renames a clause or changes a label that is not null;
   re-declaring a variable whose clause has a null label with a non-null
   label puts that label on the clause and adds no clause, and any other
   re-declaration leaves the match clauses as they were. *)
C4_MatchClausesMerge ==
    /\ [](\A i, j \in DOMAIN qb.matches : qb.matches[i].var = qb.matches[j].var => i = j)
    /\ [][/\ Len(qb'.matches) >= Len(qb.matches)
          /\ \A i \in DOMAIN qb.matches :
                /\ qb'.matches[i].var = qb.matches[i].var
                /\ qb.matches[i].label # None => qb'.matches[i].label = qb.matches[i].label]_vars
    /\ [][\A t \in TargetInputs : \A i \in DOMAIN qb.matches :
            Redeclares(t, i) =>
                IF qb.matches[i].label = None /\ t.label # None
                THEN qb'.matches = [qb.matches EXCEPT ![i].label = t.label]
                ELSE qb'.matches = qb.matches]_vars

(* C4 witness: the variable a, declared without a label, has adopted the label
   User from one re-declaration and kept it through a re-declaration with the
   label Post. *)
C4_Witness ==
    /\ qb.matches = <<[var |-> "a", label |-> "User"]>>
    /\ qb.next_var_idx = 3
    /\ ret = Ret("match", NoError, 0)

----------------------------------------------------------------------------
(* Claims about variable references *)

EdgeVars(q) == {q.edges[i].from : i \in DOMAIN q.edges} \cup {q.edges[i].to : i \in DOMAIN q.edges}
ProjectionVars(q) == {q.projections[i].var : i \in DOMAIN q.projections}

(* The variables a select() call names. *)
FieldVars(fields) ==
    {fields[i].var : i \in {j \in DOMAIN fields : fields[j].form \in {"str", "var", "prop"}}}

(* The schema's property set for the label variable v carries in q, when the
   schema is active and has an entry for that label: <<TRUE, set>>, else
   <<FALSE, {}>>. *)
SchemaPropsOf(q, v) ==
    LET hits == {i \in DOMAIN q.matches :
                    /\ q.matches[i].var = v
                    /\ ~q.schema.isNone
                    /\ q.matches[i].label \in DOMAIN q.schema.m}
    IN IF hits = {} THEN <<FALSE, {}>>
       ELSE <<TRUE, q.schema.m[q.matches[CHOOSE i \in hits : TRUE].label]>>

(* Property prop lies outside the schema's entry for the label of v. *)
OutsideSchema(q, v, prop) == SchemaPropsOf(q, v)[1] /\ prop \notin SchemaPropsOf(q, v)[2]

(* A select() argument with nothing wrong but, possibly, the variables it
   names: every field is a string, a {var} or a {var, prop} dict with a
   non-empty property the schema allows and a string alias. *)
FieldsOtherwiseValid(q, fields) ==
    \A i \in DOMAIN fields :
        /\ fields[i].form \in {"str", "var", "prop"}
        /\ fields[i].form = "prop" =>
              /\ fields[i].prop \notin {None, ""}
              /\ fields[i].alias # "<int>"
              /\ ~OutsideSchema(q, fields[i].var, fields[i].prop)

(* The call raised the unknown-variable error and left the query alone. *)
RaisedUnknownVariable ==
    /\ ret'.err = "unknown variable"
    /\ qb' = qb
    /\ pb' = pb
    /\ eng' = eng

(* C3: in every reachable state every variable named by an edge clause, a
   projection, the predicate or the predicate builder in the caller's hands
   is the variable of a match clause; a where_var() or on() call on an
   undeclared variable raises the unknown-variable error and changes nothing;
   a select() call that names an undeclared variable raises and changes
   nothing, with the unknown-variable error when nothing else is wrong with
   its fields. *)
C3_ReferencesAreDeclared ==
    /\ [](/\ EdgeVars(qb) \cup ProjectionVars(qb) \cup PredicateVars(qb.predicate)
                \subseteq Declared(qb)
          /\ pb # <<>> => pb[1].var \in Declared(qb))
    /\ [][\A v \in RefVarInputs \ (Declared(qb) \cup {""}) :
            /\ QueryBuilder_where_var(v) => RaisedUnknownVariable
            /\ \A s \in PredicateScriptInputs :
                    QueryBuilder_where_var_build(v, s) => RaisedUnknownVariable
            /\ \A s \in ScopeScriptInputs : QueryBuilder_on(v, s) => RaisedUnknownVariable]_vars
    /\ [][\A f \in FieldsInputs :
            (QueryBuilder_select(f) /\ ~(FieldVars(f) \subseteq Declared(qb))) =>
                /\ ret'.err # NoError
                /\ qb' = qb
                /\ FieldsOtherwiseValid(qb, f) => RaisedUnknownVariable]_vars

(* C3 witness: on a query that has an edge clause, a select() whose second
   field names an undeclared variable was refused. *)
C3_Witness ==
    /\ qb.edges # <<>>
    /\ "n0" \in Declared(qb)
    /\ "zz" \notin Declared(qb)
    /\ ret = Ret("select", "unknown variable", 0)

----------------------------------------------------------------------------
(* Claims about schema validation of property references *)

(* The call raised and added nothing to the query or to the predicate
   builder, and made no Engine call. *)
RejectedProperty ==
    /\ ret'.err # NoError
    /\ qb'.predicate = qb.predicate
    /\ qb'.projections = qb.projections
    /\ pb' = pb
    /\ eng' = eng

(* C9: with an active schema that has an entry for the label of a declared
   variable, a where_var comparison, a scoped where or a property projection
   that names a property outside that entry raises at that call, makes no
   Engine call and adds nothing to the query. *)
C9_UnknownPropertyRejected ==
    [][/\ (PredicateBuilder_call(EqBogus) /\ OutsideSchema(qb, pb[1].var, "bogus"))
            => RejectedProperty
       /\ (QueryBuilder_where_var_build("a", <<EqBogus>>) /\ OutsideSchema(qb, "a", "bogus"))
            => RejectedProperty
       /\ (QueryBuilder_select(<<Field("prop", "a", "bogus", None)>>)
                /\ OutsideSchema(qb, "a", "bogus"))
            => RejectedProperty
       /\ \A v \in scopes :
            /\ (NodeScope_select(v, <<"bogus">>) /\ OutsideSchema(qb, v, "bogus"))
                    => RejectedProperty
            /\ \A c \in {"and", "or"} :
                    (NodeScope_where(v, ExprEqBogus, c) /\ OutsideSchema(qb, v, "bogus"))
                        => RejectedProperty]_vars

(* C9 as it holds for the calls that look the label up when they are made:
   where_var(var, build), scoped where and select, and select(fields). *)
C9_RejectedWhenLabelReadAtCall ==
    [][/\ (QueryBuilder_where_var_build("a", <<EqBogus>>) /\ OutsideSchema(qb, "a", "bogus"))
            => RejectedProperty
       /\ (QueryBuilder_select(<<Field("prop", "a", "bogus", None)>>)
                /\ OutsideSchema(qb, "a", "bogus"))
            => RejectedProperty
       /\ \A v \in scopes :
            /\ (NodeScope_select(v, <<"bogus">>) /\ OutsideSchema(qb, v, "bogus"))
                    => RejectedProperty
            /\ \A c \in {"and", "or"} :
                    (NodeScope_where(v, ExprEqBogus, c) /\ OutsideSchema(qb, v, "bogus"))
                        => RejectedProperty]_vars

(* The state C9 fails in: the variable a carries the label User, which the
   schema knows, and the predicate builder obtained before a had a label has
   accepted a comparison on the property bogus. *)
C9_StaleValidatorState ==
    /\ OutsideSchema(qb, "a", "bogus")
    /\ pb # <<>>
    /\ <<"a", "bogus">> \in UNION {PredicateProps(pb[1].exprs[i]) : i \in DOMAIN pb[1].exprs}
    /\ ret = Ret("predicate", NoError, 0)

----------------------------------------------------------------------------
(* Claims about the chunked paths *)

BulkPaths == {"mutate_batched", "bulk_load_nodes", "bulk_load_edges"}

(* The Engine calls the chunked call made last has made, and the mutations
   among them. *)
BulkEngineCalls == SubSeq(eng, bulk.eng0 + 1, Len(eng))
IsMutation(c) == c.fn = "database_mutate"
BulkMutations == SelectSeq(BulkEngineCalls, IsMutation)

(* The op a chunked path builds for one input record. *)
RecordOp(item) ==
    CASE bulk.path = "bulk_load_nodes" -> CreateNodeOp(<<bulk.label>>, item)
      [] bulk.path = "bulk_load_edges" -> CreateEdgeOp(item.src, item.dst, item.ty, item.props)
      [] OTHER -> item

(* Input records first..last of the call, as ops. *)
RecordOps(first, last) ==
    [k \in 1..(last - first + 1) |-> RecordOp(bulk.items[first + k - 1])]

(* Chunk j of the input: records (j-1)*c+1 .. min(j*c, n). *)
ChunkOps(j) ==
    RecordOps((j - 1) * bulk.size.v + 1, Min(j * bulk.size.v, Len(bulk.items)))

(* C5: when the Engine fails on chunk k of mutate_batched, bulk_load_nodes or
   bulk_load_edges, the mutations the call has made are exactly chunks 1..k
   in order: chunks 1..k-1 once each, all of them answered "ok", then chunk k
   once (no retry) and nothing after it; the call makes no Engine call other
   than mutations and the node reads of bulk_load_edges (no rollback), and
   the caller gets the error class of the Engine's failure. *)
C5_ChunkFailureStopsTheCall ==
    ret.call \in BulkPaths =>
        \A k \in DOMAIN BulkMutations :
            BulkMutations[k].out # "ok" =>
                /\ Len(BulkMutations) = k
                /\ \A j \in 1..k : BulkMutations[j].arg.ops = ChunkOps(j)
                /\ \A j \in 1..(k - 1) : BulkMutations[j].out = "ok"
                /\ \A i \in DOMAIN BulkEngineCalls :
                        BulkEngineCalls[i].fn \in {"database_mutate", "database_get_node"}
                /\ ret.err = ErrorClassMap(BulkMutations[k].out)
                /\ ret.err # NoError

(* bulk_load_nodes over 5 records in chunks of 2: the Engine accepted chunk 1
   and failed on chunk 2. *)
C5_Witness ==
    /\ ret.call = "bulk_load_nodes"
    /\ Len(bulk.items) = 5
    /\ bulk.size = PyInt(2)
    /\ Len(BulkMutations) = 2
    /\ BulkMutations[1].out = "ok"
    /\ BulkMutations[2].out = "IO"
    /\ ret.err = "IoError"

(* isinstance(size, int) and size > 0 (Python counts True as the int 1). *)
IsPositiveInteger(size) == size.ty \in {"int", "bool"} /\ size.v > 0
CeilDiv(n, c) == (n + c - 1) \div c

(* The ops of mutations j.. of the call, concatenated. *)
RECURSIVE SubmittedOps(_)
SubmittedOps(j) ==
    IF j > Len(BulkMutations) THEN <<>>
    ELSE BulkMutations[j].arg.ops \o SubmittedOps(j + 1)

(* C6: a chunked path called with n records and a positive integer chunk
   size c makes at most ceil(n/c) Engine mutations, the j-th carrying records
   (j-1)*c+1 .. min(j*c, n) in input order; when the call returns normally it
   has made exactly ceil(n/c) of them, which together carry every record once,
   in input order, all chunks but the last of size c; with n = 0 it makes no
   Engine call; with a chunk size that is not a positive integer it raises
   and makes no Engine call. *)
C6_ChunksPartitionTheInput ==
    ret.call \in BulkPaths =>
        LET n == Len(bulk.items)
            c == bulk.size.v
        IN /\ ~IsPositiveInteger(bulk.size) => ret.err # NoError /\ Len(eng) = bulk.eng0
           /\ n = 0 => Len(eng) = bulk.eng0
           /\ IsPositiveInteger(bulk.size) =>
                /\ Len(BulkMutations) <= CeilDiv(n, c)
                /\ \A j \in DOMAIN BulkMutations : BulkMutations[j].arg.ops = ChunkOps(j)
                /\ ret.err = NoError =>
                      /\ Len(BulkMutations) = CeilDiv(n, c)
                      /\ SubmittedOps(1) = RecordOps(1, n)
                      /\ \A j \in 1..(Len(BulkMutations) - 1) :
                              Len(BulkMutations[j].arg.ops) = c
                      /\ n > 0 => Len(BulkMutations[Len(BulkMutations)].arg.ops) \in 1..c

(* bulk_load_nodes over 5 records in chunks of 2 has returned normally after
   3 Engine mutations of sizes 2, 2, 1. *)
C6_Witness ==
    /\ ret.call = "bulk_load_nodes"
    /\ ret.err = NoError
    /\ Len(bulk.items) = 5
    /\ bulk.size = PyInt(2)
    /\ Len(BulkMutations) = 3
    /\ Len(BulkMutations[1].arg.ops) = 2
    /\ Len(BulkMutations[2].arg.ops) = 2
    /\ Len(BulkMutations[3].arg.ops) = 1

(* A chunked call has raised on its chunk size or returned on an empty input
   without any Engine call. *)
C6_WitnessNoEngineCall ==
    /\ ret.call = "bulk_load_edges"
    /\ Len(bulk.items) = 5
    /\ bulk.size = PyInt(0)
    /\ ret.err = "ValueError"
    /\ Len(eng) = bulk.eng0

----------------------------------------------------------------------------
(* Claims about _MutationBatch and Database.transaction *)

RECURSIVE Flatten(_)
Flatten(ss) == IF ss = <<>> THEN <<>> ELSE Head(ss) \o Flatten(Tail(ss))

BatchQueueCalls ==
    {"batch.queue", "batch.create_node", "batch.update_node", "batch.delete_node",
     "batch.create_edge", "batch.update_edge", "batch.delete_edge"}

(* A step that is one of the seven queueing calls with arguments int() can
   convert. *)
WellTypedQueueCall ==
    \/ MutationBatch_queue(DeleteEdgeOp(9))
    \/ MutationBatch_create_node("User", Props({"name"}, 1))
    \/ MutationBatch_update_node(PyInt(1), Props({"name"}, 2), {})
    \/ MutationBatch_delete_node(PyInt(1), FALSE)
    \/ MutationBatch_create_edge(PyInt(1), PyInt(2), "KNOWS", NoProps)
    \/ MutationBatch_update_edge(PyInt(1), NoProps, {"since"})
    \/ MutationBatch_delete_edge(PyInt(1))

(* C8: drain() seals the batch, returns the ops accumulated since the batch
   was made or last drained and leaves the batch empty; on a sealed batch
   each of the seven queueing calls raises and queues nothing, with the error
   "transaction already committed" whenever its arguments convert; so at
   every moment the results of the drains so far, concatenated, followed by
   the ops still in the batch are the ops accepted so far in queue order:
   each accepted op is in the result of exactly one drain. *)
C8_DrainSealsAndHandsOutOnce ==
    /\ [](Flatten(tx_drained) \o batch_ops = tx_queued)
    /\ [](batch_sealed => batch_ops = <<>>)
    /\ [][calls' # calls /\ ret'.call = "batch.drain" =>
            /\ batch_sealed'
            /\ tx_drained' = Append(tx_drained, batch_ops)
            /\ batch_ops' = <<>>]_vars
    /\ [][batch_sealed /\ calls' # calls /\ ret'.call \in BatchQueueCalls =>
            /\ ret'.err \in {"transaction already committed", "ValueError"}
            /\ batch_sealed'
            /\ batch_ops' = batch_ops
            /\ tx_queued' = tx_queued
            /\ tx_drained' = tx_drained]_vars
    /\ [][batch_sealed /\ WellTypedQueueCall =>
            ret'.err = "transaction already committed"]_vars

(* Two ops were queued, drain() handed them out, and a create_node after it
   was refused. *)
C8_Witness ==
    /\ batch_sealed
    /\ ret.call = "batch.create_node"
    /\ ret.err = "transaction already committed"
    /\ Len(tx_queued) = 2
    /\ tx_drained = <<tx_queued>>
    /\ batch_ops = <<>>

(* The step in which transaction() gets a plain result back from fn on an
   open database. *)
TransactionSubmits ==
    /\ tx_pc = "fn"
    /\ tx_pc' = "done"
    /\ ret'.call = "transaction"
    /\ ret'.err \notin {"RuntimeError", "callback error", "ClosedError"}

(* C7: when fn has returned, transaction() makes exactly one Engine call, a
   mutation whose ops are the operations fn queued on the batch, in queue
   order. *)
C7_TransactionSubmitsQueuedOps ==
    [][TransactionSubmits =>
        /\ Len(eng') = Len(eng) + 1
        /\ eng'[Len(eng')].fn = "database_mutate"
        /\ eng'[Len(eng')].arg.ops = tx_queued]_vars

(* What the code does keep: the mutation carries the ops queued since the
   last drain(), which are all of them when fn has not drained the batch. *)
C7_SubmitsOpsLeftInBatch ==
    [][TransactionSubmits =>
        /\ Len(eng') = Len(eng) + 1
        /\ eng'[Len(eng')].fn = "database_mutate"
        /\ eng'[Len(eng')].arg.ops = batch_ops
        /\ (tx_drained = <<>> => batch_ops = tx_queued)]_vars

(* transaction() has returned normally after fn queued an op and drained the
   batch: the Engine got an empty ops list. *)
C7_DrainedInsideCallback ==
    /\ ret.call = "transaction"
    /\ ret.err = NoError
    /\ tx_queued # <<>>
    /\ Len(eng) > 0
    /\ eng[Len(eng)].fn = "database_mutate"
    /\ eng[Len(eng)].arg.ops = <<>>

----------------------------------------------------------------------------
(* Claims about schema validation of creations *)

(* The props of a created node or edge lie within the set the schema allows
   for its label or edge type. *)
NodePropsAllowed(label, props) ==
    label \in DOMAIN sdb_schema.nodes => DOMAIN props \subseteq sdb_schema.nodes[label]
EdgePropsAllowed(ty, props) ==
    ty \in DOMAIN sdb_schema.edges => DOMAIN props \subseteq sdb_schema.edges[ty].properties

(* Every creation an Engine call carries is within the schema. *)
CreationsAllowed(c) ==
    CASE c.fn = "database_mutate" ->
            \A k \in DOMAIN c.arg.ops :
                LET op == c.arg.ops[k]
                IN CASE op.op = "createNode" -> NodePropsAllowed(op.labels[1], op.props)
                     [] op.op = "createEdge" -> EdgePropsAllowed(op.ty, op.props)
                     [] OTHER -> TRUE
      [] c.fn = "database_create" ->
            /\ \A k \in DOMAIN c.arg.nodes :
                    NodePropsAllowed(c.arg.nodes[k].labels[1], c.arg.nodes[k].props)
            /\ \A k \in DOMAIN c.arg.edges :
                    EdgePropsAllowed(c.arg.edges[k].ty, c.arg.edges[k].props)
      [] OTHER -> TRUE

(* C10: with an active schema no Engine call ever carries a node or an edge
   creation whose props have a key outside the allowed set of its label or
   edge type, whichever creation path it came through. *)
C10_CreationPropsValidated ==
    ~sdb_schema.isNone => \A i \in DOMAIN eng : CreationsAllowed(eng[i])

TypedCreationCalls == {"add_node", "add_edge", "bulk_load_nodes", "bulk_load_edges"}

(* What the code does keep: the Engine calls made by SombraDB.add_node,
   add_edge, bulk_load_nodes and bulk_load_edges carry allowed props only. *)
C10_TypedPathsValidate ==
    [][calls' # calls /\ ret'.call \in TypedCreationCalls /\ ~sdb_schema.isNone =>
        \A i \in (Len(eng) + 1)..Len(eng') : CreationsAllowed(eng'[i])]_vars

(* With the schema {User: {name}} installed, Database.create_node has
   returned normally and the Engine holds a createNode for User with the
   property "bogus". *)
C10_UnvalidatedCreateNode ==
    /\ ~sdb_schema.isNone
    /\ ret.call = "create_node"
    /\ ret.err = NoError
    /\ Len(eng) > 0
    /\ eng[Len(eng)].fn = "database_mutate"
    /\ eng[Len(eng)].arg.ops[1].op = "createNode"
    /\ eng[Len(eng)].arg.ops[1].labels = <<"User">>
    /\ "bogus" \in DOMAIN eng[Len(eng)].arg.ops[1].props

----------------------------------------------------------------------------
(* Claims about create-script handles *)

(* The handle endpoints of a create script point at nodes of that script. *)
HandlesWithinScript(script) ==
    \A k \in DOMAIN script.edges :
        \A r \in {script.edges[k].src, script.edges[k].dst} :
            r.kind = "handle" => r.n \in 0..(Len(script.nodes) - 1)

(* A step in which edge() is given a handle of another builder. *)
EdgeWithOtherHandle ==
    \E s \in EndpointInputs :
        \E d \in {s} \cup OwnHandleInputs :
            /\ s \in OtherHandleInputs \/ d \in OtherHandleInputs
            /\ CreateBuilder_edge(s, "KNOWS", d, NoProps)

(* C11: every create script execute() submits has its handle endpoints within
   0 .. number of nodes of the script - 1, and edge() refuses a handle that
   another CreateBuilder produced: it raises and adds no edge. *)
C11_HandlesBelongToTheScript ==
    /\ [](\A i \in DOMAIN eng :
            eng[i].fn = "database_create" => HandlesWithinScript(eng[i].arg))
    /\ [][EdgeWithOtherHandle => ret'.err # NoError /\ cb_edges' = cb_edges]_vars

(* What the code does keep: an edge() given only handles of its own builder,
   strings and ints adds an edge whose handle endpoints are nodes the builder
   holds. *)
C11_OwnHandlesWithinScript ==
    [][(\E s \in RefInputs, d \in RefInputs : CreateBuilder_edge(s, "KNOWS", d, NoProps))
        => HandlesWithinScript([nodes |-> cb_nodes', edges |-> cb_edges'])
           \/ ~HandlesWithinScript([nodes |-> cb_nodes, edges |-> cb_edges])]_vars

(* execute() has submitted a script whose edge has a handle endpoint with an
   index that is not a node of the script. *)
C11_OtherHandleInScript ==
    /\ ret.call = "execute"
    /\ Len(eng) > 0
    /\ eng[Len(eng)].fn = "database_create"
    /\ Len(eng[Len(eng)].arg.edges) = 1
    /\ eng[Len(eng)].arg.edges[1].src.kind = "handle"
    /\ eng[Len(eng)].arg.edges[1].src.n >= Len(eng[Len(eng)].arg.nodes)

(* The encoding the claim gives for an endpoint. *)
EncodedAsGiven(r) ==
    CASE r.ty = "handle" -> [kind |-> "handle", s |-> "", n |-> r.n]
      [] r.ty = "str" -> [kind |-> "alias", s |-> r.s, n |-> 0]
      [] r.ty = "int" -> [kind |-> "id", s |-> "", n |-> r.n]

(* C12: a node() call that returns hands out the handle whose index is the
   number of nodes the builder held before it and appends its entry; an
   edge() call that returns appends one edge whose endpoints are the given
   ones encoded (handle -> handle index, non-empty string -> alias, int >= 0
   -> id), whether or not a node with that alias or index exists; no other
   call changes the two lists; and execute() on an open database and an
   unsealed builder submits exactly these lists as nodes and edges. *)
C12_ScriptFollowsCallOrder ==
    /\ [][calls' # calls /\ ret'.call = "node" /\ ret'.err = NoError =>
            /\ ret'.val = Len(cb_nodes)
            /\ Len(cb_nodes') = Len(cb_nodes) + 1
            /\ SubSeq(cb_nodes', 1, Len(cb_nodes)) = cb_nodes
            /\ cb_edges' = cb_edges]_vars
    /\ [][\A a \in {None, "$a"} : CreateBuilder_node("User", NoProps, a) /\ ~cb_sealed =>
            cb_nodes' = Append(cb_nodes, [labels |-> <<"User">>, props |-> NoProps, alias |-> a])]_vars
    /\ [][\A s \in EndpointInputs : \A d \in {s} \cup OwnHandleInputs :
            CreateBuilder_edge(s, "KNOWS", d, NoProps) /\ ~cb_sealed =>
                /\ ret'.err = NoError
                /\ cb_nodes' = cb_nodes
                /\ cb_edges' = Append(cb_edges, [src |-> EncodedAsGiven(s), ty |-> "KNOWS",
                                                 dst |-> EncodedAsGiven(d), props |-> NoProps])]_vars
    /\ [][calls' # calls /\ (ret'.call \notin {"node", "edge"} \/ ret'.err # NoError) =>
            cb_nodes' = cb_nodes /\ cb_edges' = cb_edges]_vars
    /\ [][calls' # calls /\ ret'.call = "execute" /\ ~db_closed /\ ~cb_sealed =>
            /\ Len(eng') = Len(eng) + 1
            /\ eng'[Len(eng')].fn = "database_create"
            /\ eng'[Len(eng')].arg = [nodes |-> cb_nodes, edges |-> cb_edges]]_vars

(* execute() has submitted two nodes without alias, an edge from handle 0 to
   handle 1 and an edge between references to the alias $a, which no node of
   the script carries. *)
C12_Witness ==
    /\ ret.call = "execute"
    /\ Len(eng) = 1
    /\ eng[1].fn = "database_create"
    /\ Len(eng[1].arg.nodes) = 2
    /\ \A k \in 1..2 : eng[1].arg.nodes[k].alias = None
    /\ Len(eng[1].arg.edges) = 2
    /\ eng[1].arg.edges[1].src = [kind |-> "handle", s |-> "", n |-> 0]
    /\ eng[1].arg.edges[1].dst = [kind |-> "handle", s |-> "", n |-> 1]
    /\ eng[1].arg.edges[2].src = [kind |-> "alias", s |-> "$a", n |-> 0]

----------------------------------------------------------------------------
(* Claims about traversal *)

LastEdge(q) == q.edges[Len(q.edges)]
ValidWhereTargets == {t \in WhereTargetInputs : t.form # "bad"}

(* C13: where(edge_type, target) with no current variable raises and leaves
   the builder as it was; with a current variable and a well-formed target it
   returns, leaves the earlier edges in place and appends one edge from the
   current variable to the target variable, which is the named one when the
   target names one; the target variable is declared afterwards, by a new
   match clause at the end or by the clause it already had (of which only a
   missing label may have been filled in), and it is the new current
   variable; so the edge of a where() that directly follows a where() starts
   where that one's edge ended. *)
C13_TraversalChains ==
    /\ [][\A e \in {None, "KNOWS"}, t \in WhereTargetInputs :
            QueryBuilder_where(e, t) /\ qb.last_var = None =>
                ret'.err # NoError /\ qb' = qb]_vars
    /\ [][\A e \in {None, "KNOWS"}, t \in ValidWhereTargets :
            QueryBuilder_where(e, t) /\ qb.last_var # None =>
                /\ ret'.err = NoError
                /\ Len(qb'.edges) = Len(qb.edges) + 1
                /\ SubSeq(qb'.edges, 1, Len(qb.edges)) = qb.edges
                /\ LastEdge(qb').from = qb.last_var
                /\ LastEdge(qb').to = qb'.last_var
                /\ LastEdge(qb').edge_type = e
                /\ t.var # None => qb'.last_var = t.var
                /\ qb'.last_var \in Declared(qb')
                /\ IF qb'.last_var \in Declared(qb)
                   THEN /\ Len(qb'.matches) = Len(qb.matches)
                        /\ \A i \in DOMAIN qb.matches :
                              \/ qb'.matches[i] = qb.matches[i]
                              \/ /\ qb.matches[i] = [var |-> qb'.last_var, label |-> None]
                                 /\ qb'.matches[i] = [var |-> qb'.last_var, label |-> t.label]
                   ELSE qb'.matches = Append(qb.matches, [var |-> qb'.last_var,
                                                          label |-> t.label])]_vars
    /\ [][/\ ret.call = "where" /\ ret.err = NoError
          /\ calls' # calls /\ ret'.call = "where" /\ ret'.err = NoError
          => LastEdge(qb').from = LastEdge(qb).to]_vars

(* match(a) and two traversal calls: a -> n1 -> a third variable. *)
C13_Witness ==
    /\ ret.call = "where"
    /\ ret.err = NoError
    /\ Len(qb.edges) = 2
    /\ qb.edges[1].from = "a"
    /\ qb.edges[1].to = "n1"
    /\ qb.edges[2].from = "n1"
    /\ qb.edges[2].to \notin {"a", "n1"}
    /\ qb.last_var = qb.edges[2].to

(* C14: a where() that returns gives its edge the pending direction and
   sets the pending direction back to out; direction(d) with d in
   {out, in, both} makes d the pending direction, with any other d it raises
   and changes nothing; bidirectional() does what direction(both) does; no
   other call touches the pending direction, which starts as out. So an edge
   carries the direction of the last direction()/bidirectional() call since
   the previous where(), or out, and the edge of a where() that directly
   follows a where() has direction out. *)
C14_DirectionResets ==
    /\ [][calls' # calls /\ ret'.call = "where" /\ ret'.err = NoError =>
            /\ LastEdge(qb').direction = qb.pending_direction
            /\ qb'.pending_direction = "out"]_vars
    /\ [][\A d \in DirectionInputs : QueryBuilder_direction(d) =>
            IF d \in {"out", "in", "both"}
            THEN ret'.err = NoError /\ qb' = [qb EXCEPT !.pending_direction = d]
            ELSE ret'.err # NoError /\ qb' = qb]_vars
    /\ [][QueryBuilder_bidirectional =>
            ret'.err = NoError /\ qb' = [qb EXCEPT !.pending_direction = "both"]]_vars
    /\ [][calls' # calls /\ (ret'.call \notin {"where", "direction", "bidirectional"}
                              \/ ret'.err # NoError) =>
            qb'.pending_direction = qb.pending_direction /\ qb'.edges = qb.edges]_vars
    /\ [][/\ ret.call = "where" /\ ret.err = NoError
          /\ calls' # calls /\ ret'.call = "where" /\ ret'.err = NoError
          => LastEdge(qb').direction = "out"]_vars
    /\ [](calls = 0 => qb.pending_direction = "out")

(* direction(in) before the first of two traversal calls: the first edge is
   in, the second is out again. *)
C14_Witness ==
    /\ ret.call = "where"
    /\ ret.err = NoError
    /\ Len(qb.edges) = 2
    /\ qb.edges[1].direction = "in"
    /\ qb.edges[2].direction = "out"
    /\ qb.pending_direction = "out"

----------------------------------------------------------------------------
(* Claims about predicates *)

(* The query predicate `new` is what attaching expr to `old` with the given
   combinator must give. *)
Accumulated(old, new, combinator, expr) ==
    IF old = NoPredicate THEN new = expr
    ELSE IF combinator = "and" /\ old.op = "and"
    THEN new = [old EXCEPT !.args = Append(old.args, expr)]
    ELSE IF old.op # combinator
    THEN new = Combinator(combinator, <<old, expr>>)
    ELSE TRUE

(* The same, for a call whose expression is built inside the call. *)
AccumulatedOne(old, new, combinator) ==
    IF old = NoPredicate THEN new # NoPredicate
    ELSE IF combinator = "and" /\ old.op = "and"
    THEN /\ new.op = "and"
         /\ Len(new.args) = Len(old.args) + 1
         /\ SubSeq(new.args, 1, Len(old.args)) = old.args
    ELSE IF old.op # combinator
    THEN new.op = combinator /\ Len(new.args) = 2 /\ new.args[1] = old
    ELSE TRUE

(* C15: the first predicate attached to a query becomes the query predicate
   unchanged; a predicate attached with combinator and to an and-rooted
   predicate becomes the last argument of that root, the earlier arguments
   staying as they were; a predicate attached with a combinator other than
   the root's operator gives a new root of that combinator whose arguments
   are the prior predicate and the new one; a call that raises leaves the
   predicate as it was. *)
C15_PredicateAccumulates ==
    /\ [][\A v \in scopes, e \in AttachExprInputs, c \in {"and", "or"} :
            NodeScope_where(v, e, c) /\ ret'.err = NoError =>
                Accumulated(qb.predicate, qb'.predicate, c,
                            translate_expr_node(qb, v, e).node)]_vars
    /\ [][pb # <<>> /\ PredicateBuilder_done_call /\ ret'.err = NoError =>
            Accumulated(qb.predicate, qb'.predicate, "and",
                        IF Len(pb[1].exprs) = 1 THEN pb[1].exprs[1]
                        ELSE Combinator("and", pb[1].exprs))]_vars
    /\ [][calls' # calls /\ ret'.call = "where_var" /\ ret'.err = NoError
            /\ qb'.predicate # qb.predicate =>
                AccumulatedOne(qb.predicate, qb'.predicate, "and")]_vars
    /\ [][calls' # calls /\ ret'.err # NoError => qb'.predicate = qb.predicate]_vars

(* Three predicates attached with and, the third to an and root of two: the
   root holds three arguments, none of them an and node. *)
C15_Witness ==
    /\ ret.call = "scope.where"
    /\ ret.err = NoError
    /\ qb.predicate.op = "and"
    /\ Len(qb.predicate.args) = 3
    /\ \A i \in 1..3 : qb.predicate.args[i].op = "eq"

(* A predicate attached with or to an and root: or(and(..), new). *)
C15_WitnessWrap ==
    /\ ret.call = "scope.where"
    /\ ret.err = NoError
    /\ qb.predicate.op = "or"
    /\ Len(qb.predicate.args) = 2
    /\ qb.predicate.args[1].op = "and"

(* The expression-node invariants of a predicate tree. *)
RECURSIVE WellFormedExpr(_)
WellFormedExpr(node) ==
    CASE node.op \in {"lt", "le", "gt", "ge"} ->
            Len(node.lits) = 1 /\ node.lits[1].t # "Null"
      [] node.op = "between" ->
            /\ Len(node.lits) = 2
            /\ \A i \in 1..2 : node.lits[i].t # "Null"
            /\ Len(node.incl) = 2
            /\ \A i \in 1..2 : node.incl[i].ty = "bool"
      [] node.op = "in" ->
            /\ Len(node.lits) >= 1
            /\ Cardinality({node.lits[i].t : i \in DOMAIN node.lits} \ {"Null"}) <= 1
      [] node.op \in {"and", "or"} ->
            Len(node.args) >= 1 /\ \A i \in DOMAIN node.args : WellFormedExpr(node.args[i])
      [] node.op = "not" -> Len(node.args) = 1 /\ WellFormedExpr(node.args[1])
      [] OTHER -> TRUE

(* The between nodes of a tree. *)
RECURSIVE Betweens(_)
Betweens(node) ==
    IF node.op \in {"and", "or", "not"}
    THEN UNION {Betweens(node.args[i]) : i \in DOMAIN node.args}
    ELSE IF node.op = "between" THEN {node} ELSE {}

(* The expression a successful attach step added to the query. *)
Attached(old, new) == IF old = NoPredicate THEN new ELSE new.args[Len(new.args)]

(* C16: the predicate of a query is always well formed: no lt/le/gt/ge or
   between has a Null operand, every between has two boolean flags, every in
   has a literal and at most one non-null tag, every and/or has an argument
   and every not exactly one; and a between given no inclusive, through
   where_var or through the helper, is attached with both flags true. *)
C16_AttachedTreesWellFormed ==
    /\ [](qb.predicate = NoPredicate \/ WellFormedExpr(qb.predicate))
    /\ [][\A l \in LiteralInputs, h \in {PyInt(2), PyNone} :
            QueryBuilder_where_var_build("n0", <<BetweenCmd("name", l, h, PySeqNone)>>)
                /\ ret'.err = NoError =>
            Attached(qb.predicate, qb'.predicate).incl = <<PyBool(TRUE), PyBool(TRUE)>>]_vars
    /\ [][\A v \in scopes, e \in ShapeExprInputs, c \in {"and", "or"} :
            NodeScope_where(v, e, c) /\ ret'.err = NoError /\ e.op = "between" /\ e.incl = <<>> =>
            Attached(qb.predicate, qb'.predicate).incl = <<PyBool(TRUE), PyBool(TRUE)>>]_vars

(* A between built by where_var with no inclusive, then an in-list holding a
   null and an int attached through the scope. *)
C16_Witness ==
    /\ ret.call = "scope.where"
    /\ ret.err = NoError
    /\ qb.predicate.op = "and"
    /\ Len(qb.predicate.args) = 2
    /\ qb.predicate.args[1].op = "between"
    /\ qb.predicate.args[1].incl = <<PyBool(TRUE), PyBool(TRUE)>>
    /\ qb.predicate.args[2].op = "in"
    /\ \E i \in DOMAIN qb.predicate.args[2].lits : qb.predicate.args[2].lits[i].t = "Null"

(* A between with the flags given as [True, False], under a not. *)
C16_WitnessFlags ==
    /\ ret.err = NoError
    /\ \E n \in Betweens(qb.predicate) : n.incl = <<PyBool(TRUE), PyBool(FALSE)>>
    /\ qb.predicate.op = "or"

----------------------------------------------------------------------------
(* Claims about projections *)

(* The projections a scoped select of keys names. *)
KeyProjections(var, keys) == [i \in DOMAIN keys |-> Projection("prop", var, keys[i], None)]

(* After a QueryBuilder.select(fields) that returns, the projection list is
   exactly the list of that call. *)
C17_BuilderSelectReplaces ==
    [][\A f \in ProjectFieldInputs :
        QueryBuilder_select(f) /\ ret'.err = NoError =>
            qb'.projections = [i \in DOMAIN f |-> QueryBuilder_select_field(f[i])]]_vars

(* C17: after a QueryBuilder.select(fields) or a scoped select of keys that
   returns, the projection list of the query is exactly the list given in
   that call, in order, with nothing from earlier select calls. *)
C17_SelectReplaces ==
    /\ C17_BuilderSelectReplaces
    /\ [][\A v \in scopes, k \in KeysInputs :
            NodeScope_select(v, k) /\ ret'.err = NoError =>
                qb'.projections = KeyProjections(v, k)]_vars

(* A scoped select("name") returned after select(["n0"]): the projection
   list holds the whole-entity projection of the earlier call and, after it,
   the property. *)
C17_ScopedSelectKeepsEarlier ==
    /\ ret.call = "scope.select"
    /\ ret.err = NoError
    /\ qb.projections = <<Projection("var", "n0", None, None),
                          Projection("prop", "n0", "name", None)>>

(* The Engine call a step has just made, if it submitted a query spec. *)
SubmitsQuery ==
    /\ Len(eng') = Len(eng) + 1
    /\ eng'[Len(eng')].fn \in {"database_execute", "database_explain", "database_stream"}

(* C18: a query whose projection list is empty when it is submitted (no
   select call has added to it) goes to the Engine, by execute, explain or
   stream, with exactly one whole-entity projection, without alias, per match
   clause, in the order of the clauses, those declared by traversal
   included. *)
C18_DefaultProjections ==
    [][SubmitsQuery /\ qb.projections = <<>> =>
        LET spec == eng'[Len(eng')].arg IN
        /\ Len(spec.projections) = Len(qb.matches)
        /\ \A i \in DOMAIN qb.matches :
                spec.projections[i] = Projection("var", qb.matches[i].var, None, None)
        /\ spec.matches = qb.matches]_vars

(* execute() after nodes("User") and where("KNOWS", "User"), no select: the
   spec names n0 and n1 and projects both, in that order. *)
C18_Witness ==
    /\ ret.call = "execute"
    /\ qb.projections = <<>>
    /\ Len(qb.edges) = 1
    /\ eng # <<>>
    /\ eng[Len(eng)].fn = "database_execute"
    /\ eng[Len(eng)].arg.projections =
            <<Projection("var", "n0", None, None), Projection("var", "n1", None, None)>>

(* The same through explain() and through stream(). *)
C18_WitnessExplain ==
    /\ ret.call = "explain"
    /\ qb.projections = <<>>
    /\ eng # <<>>
    /\ eng[Len(eng)].fn = "database_explain"
    /\ Len(eng[Len(eng)].arg.projections) = 2
C18_WitnessStream ==
    /\ ret.call = "stream"
    /\ qb.projections = <<>>
    /\ eng # <<>>
    /\ eng[Len(eng)].fn = "database_stream"
    /\ Len(eng[Len(eng)].arg.projections) = 2

----------------------------------------------------------------------------
(* Claims about Engine failures *)

(* The finalizer never raises, and a close() of a closed stream returns
   without raising and without an Engine call. *)
C19_FinalizerAndRepeatedCloseSilent ==
    /\ [](ret.call = "stream.del" => ret.err = NoError)
    /\ [][\A o \in EngineOutcomes :
            QueryStream_close(o) /\ st_closed => ret'.err = NoError /\ eng' = eng]_vars

(* C19: neither close() on a query stream nor the stream's finalizer ever
   raises, whatever the Engine answers to the closing of the stream handle
   and however often and in whatever order they are called. *)
C19_CloseNeverRaises ==
    /\ [](ret.call \in {"stream.close", "stream.del"} => ret.err = NoError)
    /\ C19_FinalizerAndRepeatedCloseSilent

(* close() on an open stream whose handle the Engine fails to close: the
   call raises the typed error, and the stream counts as closed. *)
C19_CloseRaises ==
    /\ ret.call = "stream.close"
    /\ ret.err = "IoError"
    /\ st_closed
    /\ eng[Len(eng)] = EngineCall("stream_close", st_handle, "IO")

(* The Engine functions behind execute, explain, stream opening, stream
   pull, mutation and create-script submission. *)
SubmissionFns ==
    {"database_execute", "database_explain", "database_stream", "stream_next",
     "database_mutate", "database_create"}

(* The Engine calls a step has made. *)
NewEngineCalls == {i \in DOMAIN eng' : i > Len(eng)}

(* The exception class of a wire code. *)
TypedClass(code) ==
    CASE code = "IO" -> "IoError"
      [] code = "CONFLICT" -> "ConflictError"
      [] OTHER -> "SombraError"

(* C20: when the Engine fails a call made for execute, explain, stream
   opening, stream pull, a mutation or a create script, the operation raises
   the typed error of the wire code (SombraError itself for an unknown code)
   and has made that one Engine call and no other. *)
C20_EngineFailuresSurfaceTyped ==
    [][\A i \in NewEngineCalls :
        eng'[i].fn \in SubmissionFns /\ eng'[i].out \notin {"ok", "row", "end"} =>
            /\ Len(eng') = Len(eng) + 1
            /\ ret'.err = TypedClass(eng'[i].out)
            /\ ret'.err # NoError]_vars

(* A stream pull the Engine failed with CONFLICT: ConflictError, one call. *)
C20_Witness ==
    /\ ret.call = "anext"
    /\ ret.err = "ConflictError"
    /\ Len(eng) = 2
    /\ eng[2] = EngineCall("stream_next", st_handle, "CONFLICT")

(* A create script the Engine failed with an unknown code: SombraError. *)
C20_WitnessCreate ==
    /\ ret.call = "execute"
    /\ ret.err = "SombraError"
    /\ Len(eng) = 1
    /\ eng[1].fn = "database_create"
    /\ eng[1].out = "BOGUS"

(* The same for execute, explain, stream opening and a mutation. *)
C20_WitnessOthers ==
    /\ Len(eng) = 3
    /\ {eng[i].fn : i \in 1..3} \subseteq
            {"database_execute", "database_explain", "database_stream", "database_mutate"}
    /\ Cardinality({eng[i].fn : i \in 1..3}) = 3
    /\ \A i \in 1..3 : eng[i].out = "IO"
    /\ ret.err = "IoError"

----------------------------------------------------------------------------
(* Claims about the error taxonomy *)

(* msg is "[" code "]", then whitespace up to position j, then a remainder
   that does not begin with whitespace. *)
HasPrefix(msg, code, j) ==
    /\ j >= Len(code) + 2
    /\ j <= Len(msg)
    /\ SubSeq(msg, 1, Len(code) + 2) = <<"[">> \o code \o <<"]">>
    /\ \A i \in (Len(code) + 3)..j : msg[i] \in WhitespaceChars
    /\ (j = Len(msg) \/ msg[j + 1] \notin WhitespaceChars)

(* msg starts with a bracketed run of code characters. *)
StartsWithCode(msg) ==
    \E k \in 1..Len(msg) :
        /\ Len(msg) >= k + 2
        /\ msg[1] = "["
        /\ \A i \in 2..(k + 1) : msg[i] \in CodeClassChars
        /\ msg[k + 2] = "]"

(* C21: for a native error whose message is "[CODE]", whitespace and a
   remainder, wrap_native_error returns an error of the class assigned to
   CODE (SombraError for MESSAGE, UNKNOWN and for an uppercase code outside
   the enumeration) whose message is exactly the remainder. *)
C21_PrefixParsed ==
    \A c \in DOMAIN CodeChars :
        \A j \in 1..(IF fn_arg = <<>> THEN 0 ELSE Len(fn_arg[1].msg)) :
            (/\ fn_out # <<>>
             /\ fn_arg[1].cls = "RuntimeError"
             /\ HasPrefix(fn_arg[1].msg, CodeChars[c], j)) =>
                /\ fn_out[1].cls = (IF c = "NOPE" THEN "SombraError" ELSE ErrorClassMap(c))
                /\ fn_out[1].msg = SubSeq(fn_arg[1].msg, j + 1, Len(fn_arg[1].msg))

(* "[CONFLICT]", two spaces, "x[": a ConflictError with message "x[". *)
C21_Witness ==
    /\ fn_out # <<>>
    /\ fn_arg[1] = Exc("RuntimeError", "", <<"[">> \o CodeChars.CONFLICT \o <<"]", " ", " ", "x", "[">>, 0)
    /\ fn_out[1].cls = "ConflictError"
    /\ fn_out[1].msg = <<"x", "[">>

(* "[NOPE] x": a SombraError with message "x". *)
C21_WitnessOutside ==
    /\ fn_out # <<>>
    /\ fn_arg[1] = Exc("RuntimeError", "", <<"[">> \o CodeChars.NOPE \o <<"]", " ", "x">>, 0)
    /\ fn_out[1] = Exc("SombraError", "UNKNOWN", <<"x">>, 1)

(* A typed error whose message does not start with a bracketed code comes
   back as the same object, however often it is wrapped. *)
C22_PlainTypedErrorKept ==
    (/\ fn_out # <<>>
     /\ fn_arg[1].cls \in SombraErrorClasses
     /\ ~StartsWithCode(fn_arg[1].msg)) => fn_out[1] = fn_arg[1]

(* C22: wrap_native_error of an error that is a typed SombraError already
   returns that same object, whatever its message, and so does wrapping the
   result again. *)
C22_TypedErrorKept ==
    (fn_out # <<>> /\ fn_arg[1].cls \in SombraErrorClasses) => fn_out[1] = fn_arg[1]

(* IoError("[CONFLICT] x") wrapped: a new ConflictError with message "x". *)
C22_TypedErrorReparsed ==
    /\ fn_out # <<>>
    /\ fn_arg[1] = Exc("IoError", "IO", <<"[">> \o CodeChars.CONFLICT \o <<"]", " ", "x">>, 0)
    /\ fn_out[1] = Exc("ConflictError", "CONFLICT", <<"x">>, 1)

(* C23: for a native error whose message does not start with a bracketed
   code, wrap_native_error returns a SombraError with code UNKNOWN and the
   message as it was; and whatever the message, it returns a SombraError. *)
C23_NoPrefixKeepsText ==
    /\ (fn_out # <<>> /\ fn_arg[1].cls = "RuntimeError" /\ ~StartsWithCode(fn_arg[1].msg)) =>
            /\ fn_out[1].cls = "SombraError"
            /\ fn_out[1].code = "UNKNOWN"
            /\ fn_out[1].msg = fn_arg[1].msg
    /\ fn_out # <<>> => fn_out[1].cls \in SombraErrorClasses

(* " [IO] x", the bracket not at the start: kept whole. *)
C23_Witness ==
    /\ fn_out # <<>>
    /\ fn_arg[1] = Exc("RuntimeError", "", <<" ", "[", "I", "O", "]", " ", "x">>, 0)
    /\ fn_out[1] = Exc("SombraError", "UNKNOWN", <<" ", "[", "I", "O", "]", " ", "x">>, 1)

----------------------------------------------------------------------------
(* Claims about the closed database *)

(* The calls that go to the Engine when the database is open. *)
EngineOperations ==
    {"execute", "explain", "stream", "create_node", "mutate_batched", "transaction"}

(* C24: on a closed database a further close() returns without an Engine
   call and leaves it closed, and every operation of the database, of a
   QueryBuilder (execute, explain, stream) and of a CreateBuilder (execute)
   made from it raises ClosedError without an Engine call. *)
C24_ClosedIsTerminal ==
    /\ [][(calls' # calls /\ db_closed /\ ret'.call = "close") =>
            ret'.err = NoError /\ eng' = eng /\ db_closed']_vars
    /\ [][(calls' # calls /\ db_closed /\ ret'.call \in EngineOperations) =>
            ret'.err = "ClosedError" /\ eng' = eng /\ db_closed']_vars
    /\ [](db_closed =>
            \E i \in DOMAIN eng : eng[i].fn = "database_close" /\ eng[i].out = "ok")

(* execute() of a CreateBuilder holding a node, after close(): ClosedError,
   the close being the only Engine call. *)
C24_Witness ==
    /\ db_closed
    /\ cb_nodes # <<>>
    /\ ret = Ret("execute", "ClosedError", 0)
    /\ Len(eng) = 1

(* A second close() after one that succeeded. *)
C24_WitnessClose ==
    /\ db_closed
    /\ ret = Ret("close", NoError, 0)
    /\ calls = 2
    /\ Len(eng) = 1

(* stream() of a QueryBuilder after close(). *)
C24_WitnessStream ==
    /\ db_closed
    /\ ret = Ret("stream", "ClosedError", 0)
    /\ qb.matches # <<>>
    /\ Len(eng) = 1

----------------------------------------------------------------------------
(* Fail fast *)

(* The inputs the claim calls invalid: a null operand to lt/le/gt/ge/between,
   a literal literal_value rejects, an in-list of mixed tags or with a nested
   list, an empty combinator (or one over an invalid comparison). *)
InvalidLeaf(c) ==
    CASE c.cmd = "cmp" ->
            \/ literal_value_err(c.value) # NoError
            \/ c.op \in {"lt", "le", "gt", "ge"} /\ c.value.ty = "NoneType"
      [] c.cmd = "between" ->
            \/ literal_value_err(c.value) # NoError
            \/ literal_value_err(c.high) # NoError
            \/ c.value.ty = "NoneType"
            \/ c.high.ty = "NoneType"
      [] OTHER ->
            \/ \E i \in DOMAIN c.seq.items :
                    \/ ensure_scalar_literal(c.seq.items[i])
                    \/ literal_value_err(c.seq.items[i]) # NoError
            \/ mixed_tags([i \in DOMAIN c.seq.items |-> literal_value(c.seq.items[i])])
InvalidInput(c) ==
    IF c.cmd = "group"
    THEN c.body = <<>> \/ \E i \in DOMAIN c.body : InvalidLeaf(c.body[i])
    ELSE InvalidLeaf(c)

(* C25: every call that supplies an invalid input raises itself -- a free
   helper leaves the caller with an error, a predicate-builder method raises
   and leaves the query as it was -- so a where() given an expression a
   helper returned finds nothing to reject, and execute, explain and stream
   always reach the Engine and return what it answered. *)
C25_RaisedAtTheCall ==
    /\ [](fn_arg # <<>> /\ InvalidInput(fn_arg[1]) => fn_out[1].err # NoError)
    /\ [][\A c \in FailFastCalls :
            (QueryBuilder_where_var_build("n0", <<c>>) /\ InvalidInput(c)) =>
                ret'.err # NoError /\ qb' = qb]_vars
    /\ [][(calls' # calls /\ ret'.call = "scope.where") => ret'.err = NoError]_vars
    /\ [][(calls' # calls /\ ret'.call \in {"execute", "explain", "stream"}) =>
            /\ Len(eng') = Len(eng) + 1
            /\ ret'.err = wrap_native_call(eng'[Len(eng')].out)]_vars

(* C25, the case that departs: a free helper returned an expression for an
   invalid input without raising, and the where() it was handed to raised. *)
C25_HelperDeferred ==
    /\ fn_arg # <<>>
    /\ InvalidInput(fn_arg[1])
    /\ fn_out[1].err = NoError
    /\ ret.call = "scope.where"
    /\ ret.err # NoError
    /\ qb.predicate = NoPredicate

(* C25, for the methods of the builders and for what the free helpers do
   check (property name, nested list, empty combinator): the call that
   supplies the invalid input raises and leaves the query as it was, and
   execute, explain and stream never raise an error of the builder. *)
C25_BuilderMethodsRaiseThemselves ==
    /\ [](fn_arg # <<>> /\ fn_arg[1].cmd = "group" /\ fn_arg[1].body = <<>>
            => fn_out[1].err # NoError)
    /\ [](fn_arg # <<>> /\ fn_arg[1].cmd = "in"
            /\ (\E i \in DOMAIN fn_arg[1].seq.items :
                    ensure_scalar_literal(fn_arg[1].seq.items[i]))
            => fn_out[1].err # NoError)
    /\ [][\A c \in FailFastCalls :
            (QueryBuilder_where_var_build("n0", <<c>>) /\ InvalidInput(c)) =>
                ret'.err # NoError /\ qb' = qb]_vars
    /\ [][\A c \in FailFastCalls :
            QueryBuilder_where_var_build("zz", <<c>>) =>
                ret'.err = "unknown variable" /\ qb' = qb]_vars
    /\ [][(calls' # calls /\ ret'.call \in {"execute", "explain", "stream"}) =>
            /\ Len(eng') = Len(eng) + 1
            /\ ret'.err = wrap_native_call(eng'[Len(eng')].out)]_vars

(* C25: a predicate-builder method given a null operand has raised, the query
   unchanged, and the query was then executed. *)
C25_WitnessBuilder ==
    /\ ret.call = "execute"
    /\ ret.err = NoError
    /\ qb.predicate = NoPredicate
    /\ calls = 3

----------------------------------------------------------------------------
(* on() *)

(* The comparisons of a predicate tree, and of an expression of the helpers. *)
RECURSIVE Comparisons(_)
Comparisons(node) ==
    IF node.op \in {"and", "or", "not"}
    THEN LET RECURSIVE sum(_)
             sum(i) == IF i = 0 THEN 0 ELSE Comparisons(node.args[i]) + sum(i - 1)
         IN sum(Len(node.args))
    ELSE IF node.op = "None" THEN 0 ELSE 1

(* What a callback body asks for: the comparisons of its where commands, the
   keys of its select commands. *)
RECURSIVE ScriptComparisons(_, _)
ScriptComparisons(script, i) ==
    IF i > Len(script) THEN 0
    ELSE (IF script[i].cmd \in {"where", "or_where"} THEN Comparisons(script[i].expr) ELSE 0)
         + ScriptComparisons(script, i + 1)
RECURSIVE ScriptKeys(_, _)
ScriptKeys(script, i) ==
    IF i > Len(script) THEN 0
    ELSE (IF script[i].cmd = "select" THEN Len(script[i].keys) ELSE 0)
         + ScriptKeys(script, i + 1)

(* The variable has a match clause, and the clause carries a label. *)
HasClause(q, var) == \E i \in DOMAIN q.matches : q.matches[i].var = var
HasLabel(q, var) ==
    \E i \in DOMAIN q.matches :
        /\ q.matches[i].var = var
        /\ q.matches[i].label \notin {None, ""}
        /\ \A j \in DOMAIN q.matches : q.matches[j].var = var => i <= j

(* C26: on(var, scope) on an undeclared variable, or on one whose match
   clause has no label, raises, hands out no scope and leaves the query as it
   was; otherwise the callback runs against a scope bound to var, whatever it
   attaches names var, and when on() returns the query has gained exactly the
   comparisons and the projections of one run of the callback. *)
C26_OnScopesCallback ==
    [][\A v \in RefVarInputs, s \in ScopeScriptInputs :
        QueryBuilder_on(v, s) =>
            IF ~HasClause(qb, v) \/ ~HasLabel(qb, v)
            THEN ret'.err # NoError /\ qb' = qb /\ scopes' = scopes
            ELSE /\ scopes' = scopes \cup {v}
                 /\ PredicateVars(qb'.predicate) \subseteq PredicateVars(qb.predicate) \cup {v}
                 /\ Len(qb'.projections) >= Len(qb.projections)
                 /\ \A i \in DOMAIN qb'.projections :
                        IF i <= Len(qb.projections)
                        THEN qb'.projections[i] = qb.projections[i]
                        ELSE qb'.projections[i].var = v /\ qb'.projections[i].kind = "prop"
                 /\ ret'.err = NoError =>
                        /\ Comparisons(qb'.predicate)
                                = Comparisons(qb.predicate) + ScriptComparisons(s, 1)
                        /\ Len(qb'.projections) = Len(qb.projections) + ScriptKeys(s, 1)
                        /\ qb'.matches = qb.matches
                        /\ qb'.edges = qb.edges]_vars

(* C26: on() ran a callback that attached a comparison and a projection to a
   labelled variable. *)
C26_Witness ==
    /\ ret.call = "on"
    /\ ret.err = NoError
    /\ PredicateVars(qb.predicate) = {"n0"}
    /\ \E i \in DOMAIN qb.projections : qb.projections[i].var = "n0"

(* C26: on() was refused for a variable whose match clause has no label. *)
C26_WitnessNoLabel ==
    /\ ret.call = "on"
    /\ ret.err = "requires a label"
    /\ HasClause(qb, "a")
    /\ ~HasLabel(qb, "a")
    /\ qb.predicate = NoPredicate

(* C26: on() was refused for a variable that was never declared. *)
C26_WitnessUndeclared ==
    /\ ret.call = "on"
    /\ ret.err = "unknown variable"
    /\ qb.matches # <<>>
    /\ qb.predicate = NoPredicate

----------------------------------------------------------------------------
(* Predicate builders are single-use *)

AlreadyFinalized == "predicate builder already finalized"

(* A call was made on the builder the caller took from where_var (top), or
   on a nested builder it kept (nested). *)
TopCall == calls' # calls /\ ret'.call \in {"predicate", "group", "done"}
NestedCall == calls' # calls /\ ret'.call \in {"nested.predicate", "nested.done"}

(* Each builder hands one expression node to its parent, once: done() appends
   the node of the builder to the query, a group that closes appends one node
   to the builder it was called on, and a group that emitted nothing is
   refused and appends nothing. *)
ContributesOnce ==
    /\ [][(TopCall /\ ret'.call = "done" /\ ret'.err = NoError) =>
            /\ ~pb[1].sealed /\ pb'[1].sealed
            /\ Comparisons(qb'.predicate)
                    = Comparisons(qb.predicate) + ScriptComparisons(
                        [i \in DOMAIN pb[1].exprs |-> [cmd |-> "where", expr |-> pb[1].exprs[i]]], 1)
            /\ qb'.predicate # qb.predicate]_vars
    /\ [][(TopCall /\ ret'.call = "group" /\ ret'.err = NoError) =>
            /\ Len(pb'[1].exprs) = Len(pb[1].exprs) + 1
            /\ pb'[2].sealed /\ pb'[2].exprs # <<>>
            /\ Comparisons(pb'[1].exprs[Len(pb'[1].exprs)])
                    = ScriptComparisons(
                        [i \in DOMAIN pb'[2].exprs |-> [cmd |-> "where", expr |-> pb'[2].exprs[i]]], 1)
            /\ qb' = qb]_vars
    /\ [][\A m \in {"or", "not"} :
            PredicateBuilder_group_kept(m, <<>>) =>
                ret'.err # NoError /\ pb'[1] = pb[1] /\ qb' = qb]_vars
    /\ [][\A c \in {GroupCmd("and", <<>>)} :
            PredicateBuilder_call(c) => ret'.err # NoError /\ pb' = pb /\ qb' = qb]_vars

(* C27: once done() has sealed the builder taken from where_var, or a group
   has closed the nested builder it was given, every further call on that
   builder raises "already finalized" and leaves the builder and the query
   as they were; each builder hands one node to its parent, once, and a
   group that emitted nothing is refused and hands over nothing. *)
C27_SingleUse ==
    /\ [][(TopCall /\ pb[1].sealed) =>
            ret'.err = AlreadyFinalized /\ pb'[1] = pb[1] /\ qb' = qb]_vars
    /\ [][(NestedCall /\ pb[2].sealed) =>
            ret'.err = AlreadyFinalized /\ pb' = pb /\ qb' = qb]_vars
    /\ ContributesOnce

(* C27, the case that departs: a call on a finalized builder raised another
   error than "already finalized" (its argument was checked first). *)
C27_OtherErrorAfterDone ==
    /\ pb # <<>>
    /\ pb[1].sealed
    /\ ret.call = "predicate"
    /\ ret.err \notin {NoError, AlreadyFinalized}

(* C27, what holds of a finalized builder: every further call raises and
   leaves the builder and the query as they were, with "already finalized"
   when the call would have been accepted before (a valid comparison, a
   group that emits a predicate, done() on the builder from where_var); and
   each builder hands one node to its parent, once. *)
C27_SealedBuilderRejects ==
    /\ [][(TopCall /\ pb[1].sealed) =>
            ret'.err # NoError /\ pb'[1] = pb[1] /\ qb' = qb]_vars
    /\ [][(NestedCall /\ pb[2].sealed) =>
            ret'.err # NoError /\ pb' = pb /\ qb' = qb]_vars
    /\ [][\A c \in {EqName, GroupCmd("or", <<EqName>>)} :
            /\ (PredicateBuilder_call(c) /\ pb[1].sealed) => ret'.err = AlreadyFinalized
            /\ (PredicateBuilder_nested_call(c) /\ pb[2].sealed) => ret'.err = AlreadyFinalized]_vars
    /\ [][(PredicateBuilder_done_call /\ pb[1].sealed) => ret'.err = AlreadyFinalized]_vars
    /\ ContributesOnce

(* C27: a valid comparison was refused with "already finalized" after done()
   had handed the builder's node to the query. *)
C27_WitnessDone ==
    /\ pb # <<>>
    /\ pb[1].sealed
    /\ ret.call = "predicate"
    /\ ret.err = AlreadyFinalized
    /\ qb.predicate # NoPredicate

(* C27: a nested builder kept after its group closed refused a comparison. *)
C27_WitnessNested ==
    /\ Len(pb) = 2
    /\ pb[2].sealed
    /\ ret.call = "nested.predicate"
    /\ ret.err = AlreadyFinalized
    /\ Len(pb[1].exprs) = 1

----------------------------------------------------------------------------
(* The request id *)

(* t is s without its leading and trailing whitespace: s is whitespace, then
   t, then whitespace, and t neither starts nor ends with whitespace. *)
Trimmed(s, t) ==
    /\ t # <<>>
    /\ t[1] \notin WhitespaceChars
    /\ t[Len(t)] \notin WhitespaceChars
    /\ \E i \in DOMAIN s :
        /\ i + Len(t) - 1 <= Len(s)
        /\ SubSeq(s, i, i + Len(t) - 1) = t
        /\ \A k \in DOMAIN s : (k < i \/ k > i + Len(t) - 1) => s[k] \in WhitespaceChars

(* C28: request_id(None) clears the id; request_id of a string with a
   character that is not whitespace sets the id to that string trimmed; any
   other value is refused and leaves the id as it was; no other call touches
   the id, which is never empty; and the spec submitted by execute, by
   explain and by stream carries the builder's id, or none when there is
   none. *)
C28_RequestIdCarried ==
    /\ [][\A v \in RequestIdInputs :
            QueryBuilder_request_id(v) =>
                IF v.ty = "NoneType"
                THEN ret'.err = NoError /\ qb'.request_id = NoRequestId
                ELSE IF v.ty = "str" /\ \E k \in DOMAIN v.chars : v.chars[k] \notin WhitespaceChars
                THEN /\ ret'.err = NoError
                     /\ ~qb'.request_id.isNone
                     /\ Trimmed(v.chars, qb'.request_id.chars)
                ELSE ret'.err # NoError /\ qb' = qb]_vars
    /\ [][ret'.call # "request_id" => qb'.request_id = qb.request_id]_vars
    /\ [](~qb.request_id.isNone => qb.request_id.chars # <<>>)
    /\ [][(calls' # calls /\ ret'.call \in {"execute", "explain", "stream"}) =>
            /\ Len(eng') = Len(eng) + 1
            /\ eng'[Len(eng')].fn
                    = CASE ret'.call = "execute" -> "database_execute"
                        [] ret'.call = "explain" -> "database_explain"
                        [] OTHER -> "database_stream"
            /\ eng'[Len(eng')].arg.request_id = qb.request_id]_vars

(* C28: an id was set and the query submitted with it; a later request_id()
   was refused and the builder still holds the id that was sent. *)
C28_Witness ==
    /\ ret.call = "request_id"
    /\ ret.err # NoError
    /\ Len(eng) = 1
    /\ ~qb.request_id.isNone
    /\ eng[1].arg.request_id = qb.request_id

(* C28: the id was set and then cleared, and stream submitted a spec without
   a request id. *)
C28_WitnessCleared ==
    /\ Len(eng) = 2
    /\ eng[1].fn = "database_explain"
    /\ ~eng[1].arg.request_id.isNone
    /\ eng[2].fn = "database_stream"
    /\ eng[2].arg.request_id.isNone

----------------------------------------------------------------------------
(* The summary of mutate_batched *)

(* The lists (key k) of the answers j..Len(parts), one after the other, and
   the sum of their counters (key k). *)
RECURSIVE ListsInOrder(_, _, _)
ListsInOrder(parts, k, j) ==
    IF j > Len(parts) THEN <<>> ELSE parts[j][k] \o ListsInOrder(parts, k, j + 1)
RECURSIVE CounterSum(_, _, _)
CounterSum(parts, k, j) ==
    IF j > Len(parts) THEN 0 ELSE parts[j][k] + CounterSum(parts, k, j + 1)

(* C29: the summary mutate_batched returns has, for createdNodes and
   createdEdges, the lists the Engine answered for the chunks, one after the
   other in chunk order, and for each counter the sum of the chunks'
   counters; there is one answer per chunk submitted; and merging a summary
   with the empty one, on either side, gives that summary. *)
C29_SummaryIsMergeInChunkOrder ==
    /\ fn_out # <<>> =>
        /\ ret.call = "mutate_batched"
        /\ ret.err = NoError
        /\ Len(fn_arg) = Len(eng) - bulk.eng0
        /\ \A k \in {"createdNodes", "createdEdges"} :
                fn_out[1][k] = ListsInOrder(fn_arg, k, 1)
        /\ \A k \in {"updatedNodes", "updatedEdges", "deletedNodes", "deletedEdges"} :
                fn_out[1][k] = CounterSum(fn_arg, k, 1)
    /\ \A i \in DOMAIN fn_arg :
        /\ merge_mutation_summaries(empty_mutation_summary, fn_arg[i]) = fn_arg[i]
        /\ merge_mutation_summaries(fn_arg[i], empty_mutation_summary) = fn_arg[i]

(* C29: three chunks were submitted, the Engine answered them with different
   summaries, and the call returned their merge. *)
C29_Witness ==
    /\ fn_out # <<>>
    /\ Len(fn_arg) = 3
    /\ fn_arg[1] = MutationSummary(<<2, 3>>, <<7>>, 0, 1, 1, 0)
    /\ fn_arg[2] = MutationSummary(<<1>>, <<>>, 1, 0, 0, 0)
    /\ fn_arg[3] = MutationSummary(<<>>, <<8>>, 0, 0, 2, 1)
    /\ fn_out[1] = MutationSummary(<<2, 3, 1>>, <<7, 8>>, 1, 1, 3, 1)

(* C29: no operation was given: no chunk was submitted and the call returned
   the empty summary. *)
C29_WitnessEmpty ==
    /\ ret.call = "mutate_batched"
    /\ fn_out = <<empty_mutation_summary>>
    /\ fn_arg = <<>>
    /\ eng = <<>>

----------------------------------------------------------------------------
(* Datetime literals *)

(* The instant of a datetime, against 0:00 UTC of its named day: the seconds
   between them, up to the microseconds (which are less than a second). *)
OffsetSeconds(v) == (v.hours - v.utcoffset) * 3600
AtOrAfterDay(v) == OffsetSeconds(v) > 0 \/ (OffsetSeconds(v) = 0 /\ v.micros >= 0)
AfterDay(v) == OffsetSeconds(v) > 0 \/ (OffsetSeconds(v) = 0 /\ v.micros > 0)

(* 1900-01-01T00:00Z <= t, and t < 2100-01-01T00:00Z. *)
NotBeforeMin(v) == v.base = "MIN_DATETIME" => AtOrAfterDay(v)
BeforeMax(v) == v.base = "MAX_DATETIME" => ~AtOrAfterDay(v)
NotAfterMax(v) == v.base = "MAX_DATETIME" => ~AfterDay(v)

(* ns is the number of nanoseconds from the Unix epoch to the instant of v,
   negative exactly when the instant is before 1970: its digits are in range
   and, with a carry c of the microseconds into the seconds, it is the named
   day plus the seconds and microseconds of v. *)
IsEpochNanos(v, ns) ==
    /\ ns.seconds \in 0..86399
    /\ ns.nanos \in 0..999999999
    /\ \E c \in {-1, 0} :
        /\ (ns.days - BaseDays[v.base]) * 86400 + ns.seconds = OffsetSeconds(v) + c
        /\ ns.nanos = (v.micros - c * 1000000) * 1000
    /\ ns.days < 0 <=> (BaseDays[v.base] < 0 \/ (v.base = "EPOCH" /\ ~AtOrAfterDay(v)))

(* -(2^63) <= ns <= 2^63 - 1, digit by digit. *)
FitsInt64(ns) ==
    LET lt(a, b) == \/ a.days < b.days
                    \/ a.days = b.days /\ a.seconds < b.seconds
                    \/ a.days = b.days /\ a.seconds = b.seconds /\ a.nanos < b.nanos
    IN /\ ~lt(ns, Nanos(-106752, 763, 145224192))
       /\ ~lt(Nanos(106751, 85636, 854775807), ns)

(* C30: a datetime is accepted exactly when it has an offset and its instant
   t in UTC satisfies 1900-01-01T00:00Z <= t < 2100-01-01T00:00Z; an accepted
   one encodes as the nanoseconds from the Unix epoch to t, which fit a
   signed 64-bit integer. *)
C30_AcceptedInHalfOpenRange ==
    fn_out # <<>> =>
        LET v == fn_arg[1]
            r == fn_out[1]
        IN /\ r.err = NoError <=> (v.aware /\ NotBeforeMin(v) /\ BeforeMax(v))
           /\ r.err = NoError => IsEpochNanos(v, r.ns) /\ FitsInt64(r.ns)

(* C30, the case that departs: the instant 2100-01-01T00:00Z itself, given
   with an offset of one hour, was accepted and encoded. *)
C30_UpperBoundAccepted ==
    /\ fn_out # <<>>
    /\ fn_arg[1] = DateTime("MAX_DATETIME", 1, 0, TRUE, 1)
    /\ fn_out[1].err = NoError
    /\ fn_out[1].ns = Nanos(47482, 0, 0)

(* C30, with the upper bound included: a datetime is accepted exactly when
   it has an offset and 1900-01-01T00:00Z <= t <= 2100-01-01T00:00Z, and an
   accepted one encodes as the nanoseconds from the Unix epoch to t, which
   fit a signed 64-bit integer. *)
C30_AcceptedInClosedRange ==
    fn_out # <<>> =>
        LET v == fn_arg[1]
            r == fn_out[1]
        IN /\ r.err = NoError <=> (v.aware /\ NotBeforeMin(v) /\ NotAfterMax(v))
           /\ r.err = NoError => IsEpochNanos(v, r.ns) /\ FitsInt64(r.ns)
           /\ Len(fn_out) = 2 => fn_out[2] = [t |-> "DateTime", v |-> r.ns]

(* C30: a microsecond before 1970 was encoded as minus a thousand
   nanoseconds. *)
C30_WitnessBeforeEpoch ==
    /\ fn_out # <<>>
    /\ fn_arg[1] = DateTime("EPOCH", 0, -1, TRUE, 0)
    /\ fn_out[1].err = NoError
    /\ fn_out[1].ns = Nanos(-1, 86399, 999999000)

(* C30: a datetime without tzinfo, and one a microsecond before 1900, were
   refused. *)
C30_WitnessRefused ==
    /\ fn_out # <<>>
    /\ fn_arg[1] \in {DateTime("EPOCH", 0, 0, FALSE, 0), DateTime("MIN_DATETIME", 0, -1, TRUE, 0)}
    /\ fn_out[1].err = "ValueError"

----------------------------------------------------------------------------
(* Auto-generated variable names *)

(* A target that names no variable: a label, or a dict without "var". *)
UnnamedTargets == {t \in TargetInputs \cup WhereTargetInputs :
                        t.form = "str" \/ (t.form = "dict" /\ t.var = None /\ t.label # None)}

(* The call added one match clause, at the end, with the label given, under
   a name no clause had before. *)
AddsFreshClause(label) ==
    /\ Len(qb'.matches) = Len(qb.matches) + 1
    /\ SubSeq(qb'.matches, 1, Len(qb.matches)) = qb.matches
    /\ qb'.matches[Len(qb'.matches)].label = label
    /\ qb'.matches[Len(qb'.matches)].var \notin Declared(qb)

(* C31: nodes(label), match(label) and a traversal to a target with a label
   and no variable each add a new match clause that carries the label, under
   a name distinct from every variable the query already declares. *)
C31_AutoNamesAreFresh ==
    /\ [][\A l \in {"User", "Post"} : QueryBuilder_nodes(l) => AddsFreshClause(l)]_vars
    /\ [][\A t \in UnnamedTargets : QueryBuilder_match(t) => AddsFreshClause(t.label)]_vars
    /\ [][\A e \in {None, "KNOWS"}, t \in UnnamedTargets :
            (QueryBuilder_where(e, t) /\ ret'.err = NoError) => AddsFreshClause(t.label)]_vars

(* C31, the case that departs: n1 was declared by name with label User, and
   the nodes() that followed generated the name n1 again, so no clause was
   added and its label was dropped. *)
C31_AutoNameTaken ==
    /\ ret.call = "nodes"
    /\ ret.err = NoError
    /\ qb.matches = <<[var |-> "n1", label |-> "User"]>>
    /\ qb.last_var = "n1"
    /\ qb.next_var_idx = 2

(* C31, among generated names: every declaration without a name uses the
   name of the builder's counter and moves the counter on, so no two
   generated names are equal; and when the query declares no variable of
   that name yet, the declaration adds a new clause carrying the label. *)
C31_AutoNamesDifferFromEachOther ==
    /\ [][\A l \in {"User", "Post"} :
            QueryBuilder_nodes(l) =>
                /\ qb'.last_var = auto_var_name(qb.next_var_idx)
                /\ qb'.next_var_idx = qb.next_var_idx + 1
                /\ auto_var_name(qb.next_var_idx) \notin Declared(qb) => AddsFreshClause(l)]_vars
    /\ [][\A t \in UnnamedTargets :
            QueryBuilder_match(t) =>
                /\ qb'.last_var = auto_var_name(qb.next_var_idx)
                /\ qb'.next_var_idx = qb.next_var_idx + 1
                /\ auto_var_name(qb.next_var_idx) \notin Declared(qb)
                        => AddsFreshClause(t.label)]_vars
    /\ [][qb'.next_var_idx >= qb.next_var_idx]_vars

(* C31: two declarations without a name were given the names n0 and n1. *)
C31_WitnessFresh ==
    /\ ret.call = "match"
    /\ Len(qb.matches) = 2
    /\ qb.matches[1] = [var |-> "n0", label |-> "User"]
    /\ qb.matches[2] = [var |-> "n1", label |-> "Post"]

----------------------------------------------------------------------------
(* Submitted specs and the schema *)

(* The [var, prop] pairs of the property projections of a spec. *)
ProjectionProps(spec) ==
    {<<spec.projections[i].var, spec.projections[i].prop>> :
        i \in {j \in DOMAIN spec.projections : spec.projections[j].kind = "prop"}}

(* Every property the spec names on a variable lies in the schema's entry
   for the label the spec gives that variable, when there is such an entry. *)
SpecWithinSchema(schema, spec) ==
    \A vp \in PredicateProps(spec.predicate) \cup ProjectionProps(spec) :
        \A i \in DOMAIN spec.matches :
            (/\ spec.matches[i].var = vp[1]
             /\ spec.matches[i].label \in DOMAIN schema.m) => vp[2] \in schema.m[spec.matches[i].label]

(* C32: while a schema is active, every query spec handed to the Engine names,
   in its comparisons and property projections, only properties of the
   schema's entry for the label of their variable, in whatever order the
   label, the predicates and the projections were attached. *)
C32_SubmittedSpecsWithinSchema ==
    ~SchemaFalsy(qb.schema) =>
        \A i \in DOMAIN eng :
            eng[i].fn \in {"database_execute", "database_explain", "database_stream"}
                => SpecWithinSchema(qb.schema, eng[i].arg)

(* C32, the case that departs: a comparison on bogus was attached to a while
   it had no label, a re-declaration gave a the label User, and the spec was
   submitted with the comparison. *)
C32_SubmittedOutsideSchema ==
    /\ ~SchemaFalsy(qb.schema)
    /\ Len(eng) = 1
    /\ eng[1].arg.matches = <<[var |-> "a", label |-> "User"]>>
    /\ <<"a", "bogus">> \in PredicateProps(eng[1].arg.predicate)
    /\ "bogus" \notin qb.schema.m["User"]

(* The builder's accumulated query, as it would be submitted now. *)
QueryWithinSchema(q) == SpecWithinSchema(q.schema, QueryBuilder_build(q))

(* C32 as it holds once the label is there: when a carries the label User,
   the accumulated query names only schema properties and no predicate
   builder obtained before the label is held, no call brings a property from
   outside the schema into the query. *)
C32_WithinSchemaOnceLabelled ==
    [][(/\ ~SchemaFalsy(qb.schema)
        /\ \E i \in DOMAIN qb.matches : qb.matches[i] = [var |-> "a", label |-> "User"]
        /\ QueryWithinSchema(qb)
        /\ (pb = <<>> \/ pb[1].validator.strict))
            => QueryWithinSchema(qb')]_vars

(* C32, a submission that conforms: a was declared with the label User, the
   comparison on bogus was refused, and the spec submitted names no property
   outside the schema. *)
C32_WitnessLabelledFirst ==
    /\ ~SchemaFalsy(qb.schema)
    /\ Len(eng) = 1
    /\ eng[1].arg.matches = <<[var |-> "a", label |-> "User"]>>
    /\ eng[1].arg.predicate = NoPredicate
    /\ calls = 3

----------------------------------------------------------------------------
(* Rejected calls and the builder's state *)

(* What a builder has accumulated: the query's match clauses, edge clauses,
   predicate and projections, and the create script's nodes and edges. *)
AccumulatedState(q, nodes, edges) ==
    <<q.matches, q.edges, q.predicate, q.projections, nodes, edges>>

(* The call made by this step raised. *)
CallRaised == calls' = calls + 1 /\ ret'.err # NoError

StateKept == AccumulatedState(qb', cb_nodes', cb_edges') = AccumulatedState(qb, cb_nodes, cb_edges)

(* C33: a QueryBuilder, node-scope or CreateBuilder call that raises leaves
   the match clauses, edge clauses, predicate, projections and the create
   script's nodes and edges as they were before the call, also when a later
   item of a multi-item call is the invalid one. *)
C33_RejectedCallKeepsState == [][CallRaised => StateKept]_vars

(* The multi-item calls that apply their items one by one: match({...}), the
   scoped select of several keys, and on() with a callback of several calls. *)
AppliesItemByItem ==
    \/ \E m \in MatchMapInputs : Len(m) > 1 /\ QueryBuilder_match_map(m)
    \/ \E v \in scopes, k \in KeysInputs : Len(k) > 1 /\ NodeScope_select(v, k)
    \/ \E v \in RefVarInputs, s \in ScopeScriptInputs : Len(s) > 1 /\ QueryBuilder_on(v, s)

(* C33 as it holds: every call other than the item-by-item ones, select([...])
   included, leaves the accumulated state as it was when it raises. *)
C33_OtherRejectedCallsKeepState == [][(CallRaised /\ ~AppliesItemByItem) => StateKept]_vars

(* C33, the state that departs: a scoped select of the keys name and bogus on
   a variable labelled User has raised on bogus, and the projection on name
   is in the builder. *)
C33_PartlyApplied ==
    /\ ret = Ret("scope.select", "Unknown property", 0)
    /\ qb.projections = <<Projection("prop", "n0", "name", None)>>

(* C33, a rejected call that kept the state: select([...]) raised on its
   second field and the projections set before are still there. *)
C33_WitnessKept ==
    /\ ret.call = "select" /\ ret.err # NoError
    /\ qb.projections = <<Projection("prop", "a", "name", None)>>

(* C33 for the create script: a node or edge call that raises leaves the
   script's nodes and edges as they were. *)
C33_CreateScriptKept ==
    [][(CallRaised /\ ret'.call \in {"node", "edge"}) => StateKept]_vars

(* C33, a rejected edge call after a node was queued. *)
C33_WitnessCreateRejected ==
    /\ ret.call = "edge" /\ ret.err # NoError
    /\ Len(cb_nodes) = 1 /\ cb_edges = <<>>

----------------------------------------------------------------------------
(* The end of a stream *)

IsStreamNext(c) == c.fn = "stream_next"
IsStreamClose(c) == c.fn = "stream_close"
IsPull == ret'.call = "anext" /\ calls' = calls + 1

(* The Engine calls this step has added. *)
AddedEngineCalls == SubSeq(eng', Len(eng) + 1, Len(eng'))

(* C34: the pull that receives the Engine's end marker yields no row and
   leaves the stream closed; over any interleaving of pulls, close() calls
   and the finalizer the Engine's stream_close is called at most once for the
   handle, a pull on an open stream makes exactly one stream_next call (a
   pull on a closed stream none), and no stream_next follows the end marker. *)
C34_EndMarkerEndsTheStream ==
    /\ [](Len(SelectSeq(eng, IsStreamClose)) <= 1)
    /\ [](\A i \in DOMAIN eng :
            (IsStreamNext(eng[i]) /\ eng[i].out = "end")
                => /\ st_closed
                   /\ \A j \in DOMAIN eng : j > i => ~IsStreamNext(eng[j]))
    /\ [][IsPull =>
            /\ Len(SelectSeq(AddedEngineCalls, IsStreamNext)) = (IF st_closed THEN 0 ELSE 1)
            /\ (\E i \in DOMAIN AddedEngineCalls : AddedEngineCalls[i].out = "end")
                    => (st_closed' /\ ret'.err # NoError /\ st_pulled' = st_pulled)]_vars

(* C34, the end reached by pulling: a row was pulled, the next pull got the
   end marker and closed the handle, and a pull and a close() after that made
   no Engine call. *)
C34_Witness ==
    /\ st_closed /\ st_pulled = 1
    /\ Len(eng) = 4
    /\ eng[3].fn = "stream_next" /\ eng[3].out = "end"
    /\ eng[4].fn = "stream_close" /\ eng[4].out = "ok"
    /\ calls = 4
    /\ ret.call \in {"anext", "stream.close", "stream.del"}

----------------------------------------------------------------------------
(* Engine calls after Database.close *)

StreamCalls == {"anext", "stream.close", "stream.del"}

(* C35: after a Database.close() that returned, no Engine call is made: the
   successful database_close is the last call the Engine receives, also when
   query streams opened before the close are pulled or closed afterwards. *)
C35_NoEngineCallAfterClose ==
    \A i \in DOMAIN eng :
        (eng[i].fn = "database_close" /\ eng[i].out = "ok") => i = Len(eng)

(* C35, the state that departs: a stream opened before the database was
   closed was pulled after the close, and the pull called stream_next. *)
C35_PullAfterClose ==
    /\ db_closed
    /\ ret.call = "anext"
    /\ Len(eng) = 3
    /\ eng[1].fn = "database_stream"
    /\ eng[2].fn = "database_close" /\ eng[2].out = "ok"
    /\ eng[3].fn = "stream_next"

(* C35 as it holds: on a closed database every call other than a pull, a
   close() or the finalizer of a stream makes no Engine call. *)
C35_NoEngineCallExceptForStreams ==
    [][(db_closed /\ calls' # calls /\ ret'.call \notin StreamCalls) => eng' = eng]_vars

(* C35, an operation refused after close: execute() of a query made from the
   database raised ClosedError and the Engine saw only the close. *)
C35_WitnessRefused ==
    /\ db_closed
    /\ ret = Ret("execute", "ClosedError", 0)
    /\ qb.matches # <<>>
    /\ Len(eng) = 1 /\ eng[1].fn = "database_close"

----------------------------------------------------------------------------
(* A transaction whose callback fails *)

BatchCalls ==
    {"batch.queue", "batch.create_node", "batch.update_node", "batch.delete_node",
     "batch.create_edge", "batch.update_edge", "batch.delete_edge"}

(* The step in which fn raises, or returns an awaitable. *)
CallbackFails ==
    /\ tx_pc = "fn"
    /\ tx_pc' = "done"
    /\ ret'.err \in {"callback error", "RuntimeError"}

(* C36: when the callback of transaction() raises or returns an awaitable, no
   Engine call is made and the operations it queued are not submitted, by
   this call or by a later one (a later transaction starts from an empty
   batch); and once the batch has been drained, a queueing call through a
   reference the callback kept raises and queues nothing. *)
C36_FailedCallbackSubmitsNothing ==
    /\ [][CallbackFails => eng' = eng]_vars
    /\ [][(calls' # calls /\ ret'.call = "transaction.fn") =>
            batch_ops' = <<>> /\ ~batch_sealed']_vars
    /\ [][(batch_sealed /\ calls' # calls /\ ret'.call \in BatchCalls) =>
            /\ ret'.err # NoError
            /\ batch_ops' = batch_ops
            /\ tx_queued' = tx_queued
            /\ eng' = eng]_vars

(* C36, a callback that queued two operations and returned an awaitable:
   transaction() raised and the Engine was not called. *)
C36_Witness ==
    /\ ret = Ret("transaction", "RuntimeError", 0)
    /\ Len(tx_queued) = 2
    /\ eng = <<>>

(* C36, a callback that queued an operation and raised. *)
C36_WitnessRaised ==
    /\ ret = Ret("transaction", "callback error", 0)
    /\ tx_queued # <<>>
    /\ eng = <<>>

(* C36, the reference kept: after transaction() submitted the batch, a
   queueing call on it raised and left the batch empty. *)
C36_WitnessRetained ==
    /\ tx_pc = "done"
    /\ ret.call \in BatchCalls
    /\ ret.err = "transaction already committed"
    /\ batch_ops = <<>>
    /\ Len(eng) = 1 /\ eng[1].fn = "database_mutate" /\ eng[1].arg.ops = tx_queued
    /\ tx_queued # <<>>

----------------------------------------------------------------------------
(* Bulk loads and validation *)

(* The input records of the bulk load made last that property validation
   rejects under the schema. *)
RejectedRecords ==
    {k \in DOMAIN bulk.items :
        CASE bulk.path = "bulk_load_nodes" ->
                SombraDB_validate_node_props(sdb_schema, bulk.label, bulk.items[k])
          [] bulk.path = "bulk_load_edges" ->
                SombraDB_validate_edge_props(sdb_schema, bulk.items[k].ty, bulk.items[k].props)
          [] OTHER -> FALSE}

(* C37: bulk_load_nodes and bulk_load_edges validate every record before they
   submit anything: when validation rejects a record of the input, the call
   has submitted no chunk to the Engine. *)
C37_ValidatedBeforeAnySubmission ==
    (ret.call \in {"bulk_load_nodes", "bulk_load_edges"} /\ RejectedRecords # {})
        => BulkMutations = <<>>

(* C37, the state that departs: bulk_load_nodes of three records in chunks of
   two raised on the third record after the Engine took the first chunk. *)
C37_ChunkSubmittedBeforeRejection ==
    /\ ret = Ret("bulk_load_nodes", "ValueError", 0)
    /\ Len(bulk.items) = 3
    /\ bulk.size.v = 2
    /\ RejectedRecords = {3}
    /\ Len(BulkMutations) = 1
    /\ BulkMutations[1].out = "ok"
    /\ BulkMutations[1].arg.ops = ChunkOps(1)

(* C37 as it holds, chunk by chunk: every chunk the call has submitted ends
   before the first rejected record, so that a rejected record in the first
   chunk means that nothing was submitted. *)
C37_ValidatedBeforeItsChunk ==
    (ret.call \in {"bulk_load_nodes", "bulk_load_edges"} /\ RejectedRecords # {})
        => \A j \in DOMAIN BulkMutations : \A k \in RejectedRecords : j * bulk.size.v < k

(* C37, a rejected record in the first chunk: nothing reached the Engine. *)
C37_WitnessFirstChunk ==
    /\ ret = Ret("bulk_load_nodes", "ValueError", 0)
    /\ RejectedRecords = {3}
    /\ bulk.size.v = 3
    /\ BulkEngineCalls = <<>>
    /\ Len(bulk.items) = 4

----------------------------------------------------------------------------
(* Submitting again *)

SubmissionCalls == {"execute", "explain", "stream"}

(* A spec without its redact flag. *)
Unredacted(spec) == [spec EXCEPT !.redact_literals = FALSE]

(* C38: execute(), explain() and stream() leave the builder's match clauses,
   edge clauses, predicate, projections, distinct flag and request id as they
   were and do not seal it; a submission that follows another with no builder
   call in between sends an equal spec; only explain(redact_literals=True)
   sends the redact flag, whatever was submitted before; and a change made in
   place to a submitted spec's predicate or projections leaves the builder
   as it was. *)
C38_SubmissionLeavesBuilder ==
    /\ [][SubmitsQuery => qb' = qb /\ scopes' = scopes /\ pb' = pb]_vars
    /\ [][(SubmitsQuery /\ ret.call \in SubmissionCalls /\ eng # <<>>)
            => Unredacted(eng'[Len(eng')].arg) = Unredacted(eng[Len(eng)].arg)]_vars
    /\ [][SubmitsQuery =>
            (eng'[Len(eng')].arg.redact_literals
                <=> (QueryBuilder_explain(TRUE, "ok") /\ ret'.call = "explain"))]_vars
    /\ [][(calls' # calls /\ ret'.call = "spec.edit") => qb' = qb]_vars
    /\ [][(SubmitsQuery /\ ret.call = "spec.edit") =>
            eng'[Len(eng')].arg \in {QueryBuilder_build(qb),
                                     [QueryBuilder_build(qb) EXCEPT !.redact_literals = TRUE]}]_vars

(* C38, submitting twice: explain(redact_literals=True), then execute() of the
   same builder sent the same spec without the flag, with the projections
   the builder still holds. *)
C38_Witness ==
    /\ Len(eng) = 2
    /\ eng[1].fn = "database_explain" /\ eng[1].arg.redact_literals
    /\ eng[2].fn = "database_execute" /\ ~eng[2].arg.redact_literals
    /\ Unredacted(eng[1].arg) = eng[2].arg
    /\ eng[2].arg.projections = qb.projections
    /\ qb.projections # <<>>
    /\ qb.matches # <<>>

(* C38, a submitted spec changed in place: the spec sent carries the change,
   the builder's projections and predicate do not. *)
C38_WitnessEdited ==
    /\ ret.call = "spec.edit"
    /\ eng[Len(eng)].arg.predicate.prop = "edited"
    /\ qb.predicate # NoPredicate
    /\ qb.predicate.prop = "name"

(* C38, not sealed: a builder call made after a submission went through. *)
C38_WitnessNotSealed ==
    /\ ret = Ret("distinct", NoError, 0)
    /\ qb.distinct
    /\ Len(eng) = 1 /\ ~eng[1].arg.distinct

----------------------------------------------------------------------------
(* The accumulated predicate as a left fold *)

(* The comparison leaves of a predicate tree, from left to right. *)
RECURSIVE LeafSeq(_)
RECURSIVE LeafSeqOf(_, _)
LeafSeqOf(args, i) ==
    IF i > Len(args) THEN <<>> ELSE LeafSeq(args[i]) \o LeafSeqOf(args, i + 1)
LeafSeq(node) ==
    IF node.op \in {"and", "or", "not"} THEN LeafSeqOf(node.args, 1)
    ELSE IF node.op = "None" THEN <<>> ELSE <<node>>

(* The truth value of a tree when exactly the leaves in `true` hold. *)
RECURSIVE Holds(_, _)
Holds(node, true) ==
    CASE node.op = "and" -> \A i \in DOMAIN node.args : Holds(node.args[i], true)
      [] node.op = "or" -> \E i \in DOMAIN node.args : Holds(node.args[i], true)
      [] node.op = "not" -> ~Holds(node.args[1], true)
      [] OTHER -> node \in true

(* new is old combined with expr: it has the leaves of old followed by those
   of expr, and under every truth assignment the value of old <combinator>
   expr (of expr alone when there was no predicate). *)
Folded(old, new, combinator, expr) ==
    /\ LeafSeq(new) = LeafSeq(old) \o LeafSeq(expr)
    /\ \A true \in SUBSET {LeafSeq(new)[i] : i \in DOMAIN LeafSeq(new)} :
            Holds(new, true) <=>
                IF old = NoPredicate THEN Holds(expr, true)
                ELSE IF combinator = "and" THEN Holds(old, true) /\ Holds(expr, true)
                ELSE Holds(old, true) \/ Holds(expr, true)

(* The expression a where_var callback hands to the query. *)
ScriptExpr(q, var, script) ==
    PredicateBuilder_finalize_expr(
        PredicateBuilder_run(
            PredicateBuilder_init(TRUE, var, "and", QueryBuilder_make_prop_validator(q, var)),
            script, 1).b).expr

(* C39: every predicate attached to a query (by a scoped where/and_where as
   and, by or_where as or, by done() of a where_var builder or by a where_var
   callback as and) leaves a tree that is, under every truth assignment to
   the comparison leaves, the earlier tree combined with the new predicate,
   and that holds the earlier leaves followed by the new ones, each once: the
   accumulated tree is the left fold of the attached predicates. *)
C39_PredicateIsLeftFold ==
    /\ [][\A v \in scopes, e \in AttachExprInputs, c \in {"and", "or"} :
            (NodeScope_where(v, e, c) /\ ret'.err = NoError) =>
                Folded(qb.predicate, qb'.predicate, c, translate_expr_node(qb, v, e).node)]_vars
    /\ [][(pb # <<>> /\ PredicateBuilder_done_call /\ ret'.err = NoError) =>
            Folded(qb.predicate, qb'.predicate, "and",
                   PredicateBuilder_finalize_expr(pb[1]).expr)]_vars
    /\ [][\A s \in AttachScriptInputs :
            (QueryBuilder_where_var_build("n0", s) /\ ret'.err = NoError) =>
                Folded(qb.predicate, qb'.predicate, "and", ScriptExpr(qb, "n0", s))]_vars
    /\ [][(calls' # calls /\ ret'.call \notin {"scope.where", "done", "where_var"})
            => qb'.predicate = qb.predicate]_vars

(* C39, a fold of three: (p1 and p2) or p3, with p1 = (name and bogus) given
   as one expression and flattened into the and root. *)
C39_Witness ==
    /\ ret = Ret("scope.where", NoError, 0)
    /\ qb.predicate.op = "or"
    /\ Len(qb.predicate.args) = 2
    /\ qb.predicate.args[1].op = "and"
    /\ Len(qb.predicate.args[1].args) = 3
    /\ Len(LeafSeq(qb.predicate)) = 4

(* C39, an or predicate attached with or to an or root: one root of three. *)
C39_WitnessSameRoot ==
    /\ ret = Ret("scope.where", NoError, 0)
    /\ qb.predicate.op = "or"
    /\ Len(qb.predicate.args) = 3
    /\ qb.predicate.args[3].op = "or"

----------------------------------------------------------------------------
(* The code of a wrapped error *)

(* The error wrapped last had a message "[CODE] rest" for the code c: the
   bracketed code, whitespace or none, and the rest. *)
WrappedWithCode(c) ==
    /\ fn_arg # <<>> /\ fn_out # <<>>
    /\ \E j \in 1..Len(fn_arg[1].msg) : HasPrefix(fn_arg[1].msg, CodeChars[c], j)

(* C40: for every code of the enumeration, MESSAGE and UNKNOWN included, the
   error wrap_native_error returns for a message "[CODE] rest" has that code
   in its code field. *)
C40_CodeFieldIsTheCode ==
    \A c \in ErrorCodes : WrappedWithCode(c) => fn_out[1].code = c

(* C40, the code that departs: "[MESSAGE] x" comes back as a SombraError
   whose code field is UNKNOWN. *)
C40_MessageBecomesUnknown ==
    /\ fn_out # <<>>
    /\ fn_arg[1] = Exc("RuntimeError", "", <<"[">> \o CodeChars.MESSAGE \o <<"]", " ", "x">>, 0)
    /\ fn_out[1] = Exc("SombraError", "UNKNOWN", <<"x">>, 1)

(* C40 as it holds: for every code of the enumeration other than MESSAGE the
   code field is the code. *)
C40_CodeFieldExceptMessage ==
    \A c \in ErrorCodes \ {"MESSAGE"} : WrappedWithCode(c) => fn_out[1].code = c

(* C40, a code kept: "[SNAPSHOT_TOO_OLD] x" comes back with that code. *)
C40_WitnessKept ==
    /\ fn_out # <<>>
    /\ fn_arg[1] = Exc("RuntimeError", "", <<"[">> \o CodeChars.SNAPSHOT_TOO_OLD \o <<"]", " ", "x">>, 0)
    /\ fn_out[1].code = "SNAPSHOT_TOO_OLD"
    /\ fn_out[1].msg = <<"x">>

(* C40, UNKNOWN kept: "[UNKNOWN] x" comes back with the code UNKNOWN. *)
C40_WitnessUnknown ==
    /\ fn_out # <<>>
    /\ fn_arg[1] = Exc("RuntimeError", "", <<"[">> \o CodeChars.UNKNOWN \o <<"]", " ", "x">>, 0)
    /\ fn_out[1] = Exc("SombraError", "UNKNOWN", <<"x">>, 1)

====
